---- MODULE Spec2Model ----
(***************************************************************************)
(* Model of streamlit_app.py: one run of the script for a chosen strategy. *)
(* A run selects strikes from the option chain (Step 5), looks up the      *)
(* premiums (Step 6), builds the price range (Step 7), computes payoff,    *)
(* max profit and max loss (Step 8), displays them (Step 9) and plots      *)
(* (Step 10).  Prices are exact: strikes and premiums are integers, and a  *)
(* quantity that the code divides carries its denominator.                 *)
(***************************************************************************)
EXTENDS Integers, Sequences, FiniteSets, TLC

(* ------------------------------ bounds -------------------------------- *)
MaxStrike == 4
MaxPremium == 2
MaxSpot == 4
MaxQty == 2
MaxDate == 3

Strikes == 1..MaxStrike
Premiums == 0..MaxPremium
Spots == 1..MaxSpot
\* terminal prices at which a payoff formula is examined: beyond every kink
Prices == 0..(3 * MaxStrike + 4 * MaxPremium + MaxSpot)

(* --------------------------- python values ---------------------------- *)
\* a number val/den, None, np.inf, or an array val (index -> numerator) / den
Num(v) == [tag |-> "num", val |-> v, den |-> 1]
Frac(n, d) == [tag |-> "num", val |-> n, den |-> d]
None == [tag |-> "None", val |-> 0, den |-> 1]
inf == [tag |-> "inf", val |-> 0, den |-> 1]
Arr(f, q) == [tag |-> "array", val |-> f, den |-> q]

Max(a, b) == IF a >= b THEN a ELSE b
SetMax(S) == CHOOSE x \in S : \A y \in S : y <= x
SetMin(S) == CHOOSE x \in S : \A y \in S : x <= y
Range(s) == {s[i] : i \in DOMAIN s}

RECURSIVE Sum(_, _)
Sum(f, S) == IF S = {} THEN 0
             ELSE LET x == CHOOSE y \in S : TRUE IN f[x] + Sum(f, S \ {x})

\* sorted(list): ascending
RECURSIVE sorted(_)
sorted(S) ==
  IF S = {} THEN <<>>
  ELSE LET m == SetMin(S) IN <<m>> \o sorted(S \ {m})

\* st.selectbox(label, options): the option the user picked; an empty list
\* renders "No options to select" and yields None
selectbox(options) ==
  IF options = <<>> THEN {None} ELSE {Num(options[i]) : i \in 1..Len(options)}

\* whether the selectbox call inside a try block raises, which is what the
\* except clause handles: a non-empty list never raises; for an empty list
\* the call returns None, or raises where the library rejects it
selectbox_raises(options) ==
  IF options = <<>> THEN {FALSE, TRUE} ELSE {FALSE}

(* ------------------------------- state -------------------------------- *)
VARIABLES
  pc,            \* position of the run: step5, step6, step10, done, stopped, crashed
  strategy,      \* st.sidebar.selectbox of the strategy menus
  S_0,           \* current stock price
  option_chain,  \* [calls, puts]: the strikes quoted in each chain
  min_percentage, max_percentage,   \* the two sliders of Step 7
  ns,            \* the script's namespace: bound name -> value
  offered,       \* options offered by each strike selectbox
  lookups,       \* premium lookups executed, in order: <<chain, strike>>
  lastPrice,     \* the quotes those lookups read: [calls, puts]
  st_error,      \* st.error / st.sidebar.error was called
  exception      \* uncaught exception that ended the run, "" if none

vars == <<pc, strategy, S_0, option_chain, min_percentage, max_percentage,
          ns, offered, lookups, lastPrice, st_error, exception>>

inputs == <<strategy, S_0, option_chain, min_percentage, max_percentage>>

Bound(n) == n \in DOMAIN ns
\* the numeric bindings, as the formulas of Step 8 read them
NumView(f) ==
  [n \in {m \in DOMAIN f : f[m].tag = "num" /\ f[m].den = 1} |-> f[n].val]
env == [S_0 |-> S_0] @@ NumView(ns)

Chains == {c \in [calls : SUBSET Strikes, puts : SUBSET Strikes] :
             c.calls # {} /\ c.puts # {}}

\* slider(label, 0, 100, 50) and slider(label, 100, 200, 150)
DefaultMinPercentage == 50
DefaultMaxPercentage == 150

InitRun(strategies, chains, spots, minpcts, maxpcts) ==
  /\ pc = "step5"
  /\ strategy \in strategies
  /\ S_0 \in spots
  /\ option_chain \in chains
  /\ min_percentage \in minpcts
  /\ max_percentage \in maxpcts
  /\ ns = <<>>
  /\ offered = <<>>
  /\ lookups = <<>>
  /\ lastPrice = [calls |-> <<>>, puts |-> <<>>]
  /\ st_error = FALSE
  /\ exception = ""

(* ------------------------ Step 5: ends of a selection ----------------- *)
\* the selection is complete: go on to Step 6
Selected(bindings, off) ==
  /\ pc' = "step6"
  /\ ns' = bindings @@ ns
  /\ offered' = off @@ offered
  /\ UNCHANGED <<inputs, lookups, lastPrice, st_error, exception>>

\* st.error(...) ; st.stop()
ErrorStop(bindings, off) ==
  /\ pc' = "stopped"
  /\ st_error' = TRUE
  /\ ns' = bindings @@ ns
  /\ offered' = off @@ offered
  /\ UNCHANGED <<inputs, lookups, lastPrice, exception>>

\* st.error(...) with no st.stop(): the script goes on
ErrorContinue(bindings, off) ==
  /\ pc' = "step6"
  /\ st_error' = TRUE
  /\ ns' = bindings @@ ns
  /\ offered' = off @@ offered
  /\ UNCHANGED <<inputs, lookups, lastPrice, exception>>


(* ---------- faulty variants the properties must tell from the code ------ *)
\* Covered Call whose maximum loss adds the premium instead of deducting it
CoveredCall_premium_added(step, S_T, q, e) ==
  IF step = "step6"
  THEN [legs |-> << [name |-> "C", chain |-> "calls", strike |-> "K", mult |-> 1] >>,
        net |-> <<  >>,
        ref |-> << "K" >>]
  ELSE [payoff |-> S_T - q * e.S_0 - Max(S_T - q * e.K, 0) + q * e.C,
        max_profit |-> Num(e.K - e.S_0 + e.C),
        max_loss |-> Num(e.S_0 + e.C)]

\* Bear Call Spread whose maximum loss is the spread width, the credit ignored
BearCallSpread_width_only(step, S_T, q, e) ==
  IF step = "step6"
  THEN [legs |-> << [name |-> "D_1", chain |-> "calls", strike |-> "K_1", mult |-> 1],
                   [name |-> "C_1", chain |-> "calls", strike |-> "K_2", mult |-> 1] >>,
        net |-> << [name |-> "C", plus |-> {"C_1"}, minus |-> {"D_1"}] >>,
        ref |-> << "K_1", "K_2" >>]
  ELSE [payoff |-> Max(S_T - q * e.K_1, 0) - Max(S_T - q * e.K_2, 0) + q * e.C,
        max_profit |-> Num(e.C),
        max_loss |-> Num(e.K_1 - e.K_2)]

\* Bull Call Spread with the net debit added to the maximum profit
BullCallSpread_debit_added(step, S_T, q, e) ==
  IF step = "step6"
  THEN [legs |-> << [name |-> "D_1", chain |-> "calls", strike |-> "K_1", mult |-> 1],
                   [name |-> "C_1", chain |-> "calls", strike |-> "K_2", mult |-> 1] >>,
        net |-> << [name |-> "D", plus |-> {"D_1"}, minus |-> {"C_1"}] >>,
        ref |-> << "K_1", "K_2" >>]
  ELSE [payoff |-> Max(S_T - q * e.K_1, 0) - Max(S_T - q * e.K_2, 0) - q * e.D,
        max_profit |-> Num(e.K_2 - e.K_1 + e.D),
        max_loss |-> Num(e.D)]

\* Long Straddle whose maximum loss forgets the put premium
LongStraddle_call_premium_only(step, S_T, q, e) ==
  IF step = "step6"
  THEN [legs |-> << [name |-> "D_1", chain |-> "calls", strike |-> "K", mult |-> 1],
                   [name |-> "D_2", chain |-> "puts", strike |-> "K", mult |-> 1] >>,
        net |-> << [name |-> "D", plus |-> {"D_1", "D_2"}, minus |-> {}] >>,
        ref |-> << "K" >>]
  ELSE [payoff |-> Max(S_T - q * e.K, 0) + Max(q * e.K - S_T, 0) - q * e.D,
        max_profit |-> inf,
        max_loss |-> Num(e.D_1),
        S_up |-> Num(e.K + e.D),
        S_down |-> Num(e.K - e.D)]

\* Short Straddle that keeps only the call premium as maximum profit
ShortStraddle_call_premium_only(step, S_T, q, e) ==
  IF step = "step6"
  THEN [legs |-> << [name |-> "C_1", chain |-> "calls", strike |-> "K", mult |-> 1],
                   [name |-> "C_2", chain |-> "puts", strike |-> "K", mult |-> 1] >>,
        net |-> << [name |-> "C", plus |-> {"C_1", "C_2"}, minus |-> {}] >>,
        ref |-> << "K" >>]
  ELSE [payoff |-> 0 - Max(S_T - q * e.K, 0) - Max(q * e.K - S_T, 0) + q * e.C,
        max_profit |-> Num(e.C_1),
        max_loss |-> inf,
        S_up |-> Num(e.K + e.C),
        S_down |-> Num(e.K - e.C)]

\* ladder selection that offers K_3 on the far side of K_1, not of K_2
SelectLadder_K3_beyond_K1(name, chain, above) ==
  /\ pc = "step5" /\ strategy = name
  /\ LET strike_prices == option_chain[chain]
         beyond(k) == sorted({price \in strike_prices :
                                IF above THEN price > k ELSE k > price})
         has_beyond(k) == IF above THEN SetMax(strike_prices) > k
                          ELSE SetMin(strike_prices) < k IN
     \E k1 \in selectbox(sorted(strike_prices)) :
       LET off1 == [K_1 |-> sorted(strike_prices)] IN
       IF has_beyond(k1.val)
       THEN \E k2 \in selectbox(beyond(k1.val)) :
              LET b2 == [K_1 |-> k1, K_2 |-> k2]
                  off2 == [K_2 |-> beyond(k1.val)] @@ off1 IN
              IF has_beyond(k2.val)
              THEN \E k3 \in selectbox(beyond(k1.val)) :
                     Selected([K_3 |-> k3] @@ b2, [K_3 |-> beyond(k1.val)] @@ off2)
              ELSE ErrorStop(b2, off2)
       ELSE ErrorStop([K_1 |-> k1], off1)

\* condor selection that offers K_4 = K_3 + Kappa without testing the chain
SelectCondor_K4_unchecked(name, low, high) ==
  /\ pc = "step5" /\ strategy = name
  /\ \E k1 \in selectbox(sorted(option_chain[low])) :
       LET off1 == [K_1 |-> sorted(option_chain[low])] IN
       IF SetMax(option_chain[low]) > k1.val
       THEN LET opts2 == sorted({price \in option_chain[low] : price > k1.val}) IN
            \E k2 \in selectbox(opts2) :
              LET Kappa == k2.val - k1.val
                  strike_prices == option_chain[high]
                  b2 == [K_1 |-> k1, K_2 |-> k2, Kappa |-> Num(Kappa)]
                  off2 == [K_2 |-> opts2] @@ off1 IN
              IF k2.val + Kappa \in strike_prices
              THEN \E k3 \in selectbox(sorted({k2.val + Kappa})) :
                   \E k4 \in selectbox(sorted({k3.val + Kappa})) :
                     Selected([K_3 |-> k3, K_4 |-> k4] @@ b2,
                              [K_3 |-> sorted({k2.val + Kappa}),
                               K_4 |-> sorted({k3.val + Kappa})] @@ off2)
              ELSE ErrorStop(b2, off2)
       ELSE ErrorStop([K_1 |-> k1], off1)

(* ======================= Step 5: strike selection ===================== *)
\* sorted([price for price in strike_prices if price > K_1])
BullCallSpread_K2_options(strike_prices, k1) ==
  sorted({price \in strike_prices : price > k1})

\* K_2 is chosen inside try: ... except Exception: st.error(...); st.stop()
BullCallSpread_Select ==
  /\ pc = "step5" /\ strategy = "Bull Call Spread"
  /\ LET strike_prices == option_chain.calls IN
     \E k1 \in selectbox(sorted(strike_prices)) :
       LET opts == BullCallSpread_K2_options(strike_prices, k1.val)
           off == [K_1 |-> sorted(strike_prices), K_2 |-> opts] IN
       \E raised \in selectbox_raises(opts) :
         IF raised
         THEN ErrorStop([K_1 |-> k1], off)
         ELSE \E k2 \in selectbox(opts) : Selected([K_1 |-> k1, K_2 |-> k2], off)

BullPutSpread_K2_options(strike_prices, k1) ==
  sorted({price \in strike_prices : price > k1})

BullPutSpread_Select ==
  /\ pc = "step5" /\ strategy = "Bull Put Spread"
  /\ LET strike_prices == option_chain.puts IN
     \E k1 \in selectbox(sorted(strike_prices)) :
       LET opts == BullPutSpread_K2_options(strike_prices, k1.val)
           off == [K_1 |-> sorted(strike_prices), K_2 |-> opts] IN
       \E raised \in selectbox_raises(opts) :
         IF raised
         THEN ErrorStop([K_1 |-> k1], off)
         ELSE \E k2 \in selectbox(opts) : Selected([K_1 |-> k1, K_2 |-> k2], off)

\* Bear Call Spread, Bear Put Spread:
\* if np.min(strike_prices) < K_1: K_2 among the strikes below K_1
SelectBelow(name, chain) ==
  /\ pc = "step5" /\ strategy = name
  /\ LET strike_prices == option_chain[chain] IN
     \E k1 \in selectbox(sorted(strike_prices)) :
       LET opts == sorted({price \in strike_prices : price < k1.val})
           off == [K_1 |-> sorted(strike_prices)] IN
       IF SetMin(strike_prices) < k1.val
       THEN \E k2 \in selectbox(opts) :
              Selected([K_1 |-> k1, K_2 |-> k2], [K_2 |-> opts] @@ off)
       ELSE ErrorStop([K_1 |-> k1], off)

\* Long/Short Straddle, Covered Short Straddle, Strap, Strip:
\* K_1 from the first chain; K = K_1 if the paired chain quotes it, else
\* st.error and, where the branch has it, st.stop()
SelectSameStrike(name, first, paired, stops) ==
  /\ pc = "step5" /\ strategy = name
  /\ \E k1 \in selectbox(sorted(option_chain[first])) :
       LET off == [K_1 |-> sorted(option_chain[first])] IN
       IF k1.val \in option_chain[paired]
       THEN \E k \in selectbox(sorted({k1.val})) :
              Selected([K_1 |-> k1, K |-> k], [K |-> sorted({k1.val})] @@ off)
       ELSE IF stops THEN ErrorStop([K_1 |-> k1], off)
            ELSE ErrorContinue([K_1 |-> k1], off)

\* round(x, 0) for x = tenths / 10: halves go to the even neighbour
round0(tenths) ==
  LET f == tenths \div 10
      r == tenths % 10
  IN IF r < 5 THEN f
     ELSE IF r > 5 THEN f + 1
     ELSE IF f % 2 = 0 THEN f ELSE f + 1

\* Long and Short Synthetic Forward: K_1 among the strikes of the first chain
\* strictly between round(0.9*S_0) and round(1.1*S_0), K among the strikes of
\* the paired chain equal to K_1
SelectForward(name, first, paired) ==
  /\ pc = "step5" /\ strategy = name
  /\ LET strike_prices == option_chain[first] IN
     IF SetMin(strike_prices) < S_0 /\ S_0 < SetMax(strike_prices)
     THEN \E atm \in {sorted({price \in strike_prices :
                                round0(9 * S_0) < price
                                /\ price < round0(11 * S_0)})} :
          \E k1 \in selectbox(atm) :
          \E same \in {sorted({price \in option_chain[paired] : Num(price) = k1})} :
          \E k \in selectbox(same) :
            Selected([K_1 |-> k1, K |-> k], [K_1 |-> atm, K |-> same])
     ELSE ErrorStop(<<>>, <<>>)

\* K_1 from one chain, K_2 from the other: Long Combo, Short Combo, Covered
\* Short Strangle and Collar.  The branch tests np.min(...) < K_1 (below) or
\* np.max(...) > K_1 (above) on the chain `tested`, offers the strikes of
\* `second` on that side of K_1 (all of them when not filtered), and after
\* st.error calls st.stop() or not
SelectAcross(name, first, second, tested, above, filtered, stops) ==
  /\ pc = "step5" /\ strategy = name
  /\ \E k1 \in selectbox(sorted(option_chain[first])) :
       LET strike_prices == option_chain[second]
           opts == sorted({price \in strike_prices :
                             \/ ~filtered
                             \/ IF above THEN price > k1.val ELSE price < k1.val})
           off == [K_1 |-> sorted(option_chain[first])] IN
       IF (IF above THEN SetMax(option_chain[tested]) > k1.val
           ELSE SetMin(option_chain[tested]) < k1.val)
       THEN \E k2 \in selectbox(opts) :
              Selected([K_1 |-> k1, K_2 |-> k2], [K_2 |-> opts] @@ off)
       ELSE IF stops THEN ErrorStop([K_1 |-> k1], off)
            ELSE ErrorContinue([K_1 |-> k1], off)

\* the four ladders: K_1 from the chain, K_2 among the strikes beyond K_1 and
\* K_3 among the strikes beyond K_2 (above for the call ladders, below for the
\* put ladders), each behind the test np.max(...) > K or np.min(...) < K
SelectLadder(name, chain, above) ==
  /\ pc = "step5" /\ strategy = name
  /\ LET strike_prices == option_chain[chain]
         beyond(k) == sorted({price \in strike_prices :
                                IF above THEN price > k ELSE k > price})
         has_beyond(k) == IF above THEN SetMax(strike_prices) > k
                          ELSE SetMin(strike_prices) < k IN
     \E k1 \in selectbox(sorted(strike_prices)) :
       LET off1 == [K_1 |-> sorted(strike_prices)] IN
       IF has_beyond(k1.val)
       THEN \E k2 \in selectbox(beyond(k1.val)) :
              LET b2 == [K_1 |-> k1, K_2 |-> k2]
                  off2 == [K_2 |-> beyond(k1.val)] @@ off1 IN
              IF has_beyond(k2.val)
              THEN \E k3 \in selectbox(beyond(k2.val)) :
                     Selected([K_3 |-> k3] @@ b2, [K_3 |-> beyond(k2.val)] @@ off2)
              ELSE ErrorStop(b2, off2)
       ELSE ErrorStop([K_1 |-> k1], off1)

\* the four seagull spreads: K_1, K_2 and K_3 each from the whole chain of its
\* leg, with no test between them
SelectSeagull(name, first, second, third) ==
  /\ pc = "step5" /\ strategy = name
  /\ \E k1 \in selectbox(sorted(option_chain[first])) :
     \E k2 \in selectbox(sorted(option_chain[second])) :
     \E k3 \in selectbox(sorted(option_chain[third])) :
       Selected([K_1 |-> k1, K_2 |-> k2, K_3 |-> k3],
                [K_1 |-> sorted(option_chain[first]),
                 K_2 |-> sorted(option_chain[second]),
                 K_3 |-> sorted(option_chain[third])])

\* Protective Put, Protective Call: K among the strikes not above (put) or
\* not below (call) the current price, inside try: ... except Exception:
\* st.error(...); st.stop()
SelectProtective(name, chain, below) ==
  /\ pc = "step5" /\ strategy = name
  /\ LET strike_prices == option_chain[chain]
         opts == sorted({price \in strike_prices :
                           IF below THEN price <= S_0 ELSE price >= S_0}) IN
     \E raised \in selectbox_raises(opts) :
       IF raised
       THEN ErrorStop(<<>>, [K |-> opts])
       ELSE \E k \in selectbox(opts) : Selected([K |-> k], [K |-> opts])

\* the four synthetic straddles: one strike K from one chain
SelectOne(name, chain) ==
  /\ pc = "step5" /\ strategy = name
  /\ \E k \in selectbox(sorted(option_chain[chain])) :
       Selected([K |-> k], [K |-> sorted(option_chain[chain])])

\* Long/Short Strangle, Long/Short Guts: K_1 among the calls, K_2 among the puts
SelectTwoFree(name, first, second) ==
  /\ pc = "step5" /\ strategy = name
  /\ \E k1 \in selectbox(sorted(option_chain[first])) :
     \E k2 \in selectbox(sorted(option_chain[second])) :
       Selected([K_1 |-> k1, K_2 |-> k2],
                [K_1 |-> sorted(option_chain[first]),
                 K_2 |-> sorted(option_chain[second])])

\* st.sidebar.number_input(label, min_value=lo, step=1[, max_value=hi])
number_input(lo, hi) == {Num(n) : n \in lo..hi}

\* the four ratio strategies: N_S >= 1, K_1, then N_L >= N_S (backspreads) or
\* 1 <= N_L <= N_S (ratio spreads), K_2; both strikes from the whole chain
SelectRatio(name, chain, backspread) ==
  /\ pc = "step5" /\ strategy = name
  /\ LET strike_prices == option_chain[chain] IN
     \E n_s \in number_input(1, MaxQty) :
     \E k1 \in selectbox(sorted(strike_prices)) :
     \E n_l \in (IF backspread THEN number_input(n_s.val, MaxQty)
                 ELSE number_input(1, n_s.val)) :
     \E k2 \in selectbox(sorted(strike_prices)) :
       Selected([N_S |-> n_s, K_1 |-> k1, N_L |-> n_l, K_2 |-> k2],
                [K_1 |-> sorted(strike_prices), K_2 |-> sorted(strike_prices)])

\* Long Call Butterfly: Kappa = K_1 - K_2; the test reads K_2 + Kappa, the
\* strike offered is K_2 - Kappa
LongCallButterfly_Select ==
  /\ pc = "step5" /\ strategy = "Long Call Butterfly"
  /\ LET strike_prices == option_chain.calls IN
     \E k1 \in selectbox(sorted(strike_prices)) :
     \E k2 \in selectbox(sorted(strike_prices)) :
       LET Kappa == k1.val - k2.val
           off == [K_1 |-> sorted(strike_prices), K_2 |-> sorted(strike_prices)]
           b == [K_1 |-> k1, K_2 |-> k2, Kappa |-> Num(Kappa)] IN
       IF k2.val + Kappa \in strike_prices
       THEN \E k3 \in selectbox(sorted({k2.val - Kappa})) :
              Selected([K_3 |-> k3] @@ b, [K_3 |-> sorted({k2.val - Kappa})] @@ off)
       ELSE ErrorStop(b, off)

\* the K_3 offered by Modified Call Butterfly
ModifiedCallButterfly_K3_options(strike_prices, k2, Kappa) ==
  sorted({price \in strike_prices : k2 - price > Kappa /\ price < k2})

ModifiedCallButterfly_Select ==
  /\ pc = "step5" /\ strategy = "Modified Call Butterfly"
  /\ LET strike_prices == option_chain.calls IN
     \E k1 \in selectbox(sorted(strike_prices)) :
     \E k2 \in selectbox(sorted(strike_prices)) :
       LET Kappa == k1.val - k2.val
           opts == ModifiedCallButterfly_K3_options(strike_prices, k2.val, Kappa)
           off == [K_1 |-> sorted(strike_prices), K_2 |-> sorted(strike_prices)]
           b == [K_1 |-> k1, K_2 |-> k2, Kappa |-> Num(Kappa)] IN
       IF SetMax(strike_prices) > k2.val + Kappa
       THEN \E k3 \in selectbox(opts) :
              Selected([K_3 |-> k3] @@ b, [K_3 |-> opts] @@ off)
       ELSE ErrorStop(b, off)

LongPutButterfly_Select ==
  /\ pc = "step5" /\ strategy = "Long Put Butterfly"
  /\ LET strike_prices == option_chain.puts IN
     \E k1 \in selectbox(sorted(strike_prices)) :
     \E k2 \in selectbox(sorted(strike_prices)) :
       LET Kappa == k2.val - k1.val
           off == [K_1 |-> sorted(strike_prices), K_2 |-> sorted(strike_prices)]
           b == [K_1 |-> k1, K_2 |-> k2, Kappa |-> Num(Kappa)] IN
       IF k2.val + Kappa \in strike_prices
       THEN \E k3 \in selectbox(sorted({k2.val + Kappa})) :
              Selected([K_3 |-> k3] @@ b, [K_3 |-> sorted({k2.val + Kappa})] @@ off)
       ELSE ErrorStop(b, off)

\* the K_3 offered by Modified Put Butterfly (strike_prices_list)
ModifiedPutButterfly_K3_options(strike_prices, k1, k2) ==
  sorted({price \in strike_prices : k2 - k1 > price - k2 /\ price > k2})

ModifiedPutButterfly_Select ==
  /\ pc = "step5" /\ strategy = "Modified Put Butterfly"
  /\ LET strike_prices == option_chain.puts IN
     \E k1 \in selectbox(sorted(strike_prices)) :
     \E k2 \in selectbox(sorted(strike_prices)) :
       LET opts == ModifiedPutButterfly_K3_options(strike_prices, k1.val, k2.val)
           off == [K_1 |-> sorted(strike_prices), K_2 |-> sorted(strike_prices)]
           b == [K_1 |-> k1, K_2 |-> k2] IN
       IF opts # <<>>
       THEN \E k3 \in selectbox(opts) :
              Selected([K_3 |-> k3] @@ b, [K_3 |-> opts] @@ off)
       ELSE ErrorStop(b, off)

ShortCallButterfly_Select ==
  /\ pc = "step5" /\ strategy = "Short Call Butterfly"
  /\ LET strike_prices == option_chain.calls IN
     \E k1 \in selectbox(sorted(strike_prices)) :
     \E k2 \in selectbox(sorted(strike_prices)) :
       LET Kappa == k2.val - k1.val
           opts == sorted({price \in strike_prices : price - k2.val = k2.val - k1.val})
           off == [K_1 |-> sorted(strike_prices), K_2 |-> sorted(strike_prices)]
           b == [K_1 |-> k1, K_2 |-> k2, Kappa |-> Num(Kappa)] IN
       IF k2.val + Kappa \in strike_prices
       THEN \E k3 \in selectbox(opts) :
              Selected([K_3 |-> k3] @@ b, [K_3 |-> opts] @@ off)
       ELSE ErrorStop(b, off)

ShortPutButterfly_Select ==
  /\ pc = "step5" /\ strategy = "Short Put Butterfly"
  /\ LET strike_prices == option_chain.puts IN
     \E k1 \in selectbox(sorted(strike_prices)) :
     \E k2 \in selectbox(sorted(strike_prices)) :
       LET Kappa == k1.val - k2.val
           opts == sorted({price \in strike_prices : k2.val - price = Kappa})
           off == [K_1 |-> sorted(strike_prices), K_2 |-> sorted(strike_prices)]
           b == [K_1 |-> k1, K_2 |-> k2, Kappa |-> Num(Kappa)] IN
       IF k2.val - Kappa \in strike_prices
       THEN \E k3 \in selectbox(opts) :
              Selected([K_3 |-> k3] @@ b, [K_3 |-> opts] @@ off)
       ELSE ErrorStop(b, off)

\* Long/Short Iron Butterfly: K_1 and K_2_P among the puts, K_2 = K_2_P if the
\* calls quote it, K_3 = K_2 + Kappa if the calls quote it
SelectIronButterfly(name) ==
  /\ pc = "step5" /\ strategy = name
  /\ \E k1 \in selectbox(sorted(option_chain.puts)) :
     \E k2p \in selectbox(sorted(option_chain.puts)) :
       LET strike_prices == option_chain.calls
           off == [K_1 |-> sorted(option_chain.puts), K_2_P |-> sorted(option_chain.puts)]
           b == [K_1 |-> k1, K_2_P |-> k2p] IN
       IF k2p.val \in strike_prices
       THEN \E k2 \in selectbox(sorted({k2p.val})) :
              LET Kappa == k2.val - k1.val
                  b2 == [K_2 |-> k2, Kappa |-> Num(Kappa)] @@ b
                  off2 == [K_2 |-> sorted({k2p.val})] @@ off IN
              IF k2.val + Kappa \in strike_prices
              THEN \E k3 \in selectbox(sorted({k2.val + Kappa})) :
                     Selected([K_3 |-> k3] @@ b2,
                              [K_3 |-> sorted({k2.val + Kappa})] @@ off2)
              ELSE ErrorStop(b2, off2)
       ELSE ErrorStop(b, off)

\* the six condors: K_1 and K_2 > K_1 from the chain of the low legs, then
\* K_3 = K_2 + Kappa and K_4 = K_3 + Kappa if the chain of the high legs
\* quotes them (the same chain, except for the iron condors)
SelectCondor(name, low, high) ==
  /\ pc = "step5" /\ strategy = name
  /\ \E k1 \in selectbox(sorted(option_chain[low])) :
       LET off1 == [K_1 |-> sorted(option_chain[low])] IN
       IF SetMax(option_chain[low]) > k1.val
       THEN LET opts2 == sorted({price \in option_chain[low] : price > k1.val}) IN
            \E k2 \in selectbox(opts2) :
              LET Kappa == k2.val - k1.val
                  strike_prices == option_chain[high]
                  b2 == [K_1 |-> k1, K_2 |-> k2, Kappa |-> Num(Kappa)]
                  off2 == [K_2 |-> opts2] @@ off1 IN
              IF k2.val + Kappa \in strike_prices
              THEN \E k3 \in selectbox(sorted({k2.val + Kappa})) :
                     LET b3 == [K_3 |-> k3] @@ b2
                         off3 == [K_3 |-> sorted({k2.val + Kappa})] @@ off2 IN
                     IF k3.val + Kappa \in strike_prices
                     THEN \E k4 \in selectbox(sorted({k3.val + Kappa})) :
                            Selected([K_4 |-> k4] @@ b3,
                                     [K_4 |-> sorted({k3.val + Kappa})] @@ off3)
                     ELSE ErrorStop(b3, off3)
              ELSE ErrorStop(b2, off2)
       ELSE ErrorStop([K_1 |-> k1], off1)

\* Long Box: K_1_P and K_2_P among the puts, each kept if the calls quote it
LongBox_Select ==
  /\ pc = "step5" /\ strategy = "Long Box"
  /\ LET put_strike_prices == option_chain.puts
         call_strike_prices == option_chain.calls IN
     \E k1p \in selectbox(sorted(put_strike_prices)) :
       LET off1 == [K_1_P |-> sorted(put_strike_prices)] IN
       IF k1p.val \in call_strike_prices
       THEN \E k1 \in selectbox(sorted({k1p.val})) :
            \E k2p \in selectbox(sorted(put_strike_prices)) :
              LET b == [K_1_P |-> k1p, K_1 |-> k1, K_2_P |-> k2p]
                  off == [K_1 |-> sorted({k1p.val}),
                          K_2_P |-> sorted(put_strike_prices)] @@ off1 IN
              IF k2p.val \in call_strike_prices
              THEN \E k2 \in selectbox(sorted({k2p.val})) :
                     Selected([K_2 |-> k2] @@ b, [K_2 |-> sorted({k2p.val})] @@ off)
              ELSE ErrorStop(b, off)
       ELSE ErrorStop([K_1_P |-> k1p], off1)


(* ============ Steps 6 to 8 of each branch: premiums, range, payoff ====== *)
\* per strategy, at step6: the premium lookups in order (name = mult * lastPrice
\* of the chain at the strike), the net premium, and the strikes whose mean
\* centres the price range of Step 7; at step8: payoff (scaled by q, at
\* terminal price S_T / q), max_profit, max_loss and the breakevens computed
\* Covered Call
CoveredCall(step, S_T, q, e) ==
  IF step = "step6"
  THEN [legs |-> << [name |-> "C", chain |-> "calls", strike |-> "K", mult |-> 1] >>,
        net |-> <<  >>,
        ref |-> << "K" >>]
  ELSE [payoff |-> S_T - q * e.S_0 - Max(S_T - q * e.K, 0) + q * e.C,
        max_profit |-> Num(e.K - e.S_0 + e.C),
        max_loss |-> Num(e.S_0 - e.C)]

\* Covered Put
CoveredPut(step, S_T, q, e) ==
  IF step = "step6"
  THEN [legs |-> << [name |-> "C", chain |-> "puts", strike |-> "K", mult |-> 1] >>,
        net |-> <<  >>,
        ref |-> << "K" >>]
  ELSE [payoff |-> q * e.S_0 - S_T - Max(q * e.K - S_T, 0) + q * e.C,
        max_profit |-> Num(e.S_0 - e.K + e.C),
        max_loss |-> inf]

\* Protective Put
ProtectivePut(step, S_T, q, e) ==
  IF step = "step6"
  THEN [legs |-> << [name |-> "D", chain |-> "puts", strike |-> "K", mult |-> 1] >>,
        net |-> <<  >>,
        ref |-> << "K" >>]
  ELSE [payoff |-> S_T - q * e.S_0 + Max(q * e.K - S_T, 0) - q * e.D,
        max_profit |-> inf,
        max_loss |-> Num(e.S_0 - e.K + e.D)]

\* Protective Call
ProtectiveCall(step, S_T, q, e) ==
  IF step = "step6"
  THEN [legs |-> << [name |-> "D", chain |-> "calls", strike |-> "K", mult |-> 1] >>,
        net |-> <<  >>,
        ref |-> << "K" >>]
  ELSE [payoff |-> q * e.S_0 - S_T + Max(S_T - q * e.K, 0) - q * e.D,
        max_profit |-> Num(e.S_0 - e.D),
        max_loss |-> Num(e.K - e.S_0 + e.D)]

\* Bull Call Spread
BullCallSpread(step, S_T, q, e) ==
  IF step = "step6"
  THEN [legs |-> << [name |-> "D_1", chain |-> "calls", strike |-> "K_1", mult |-> 1],
                   [name |-> "C_1", chain |-> "calls", strike |-> "K_2", mult |-> 1] >>,
        net |-> << [name |-> "D", plus |-> {"D_1"}, minus |-> {"C_1"}] >>,
        ref |-> << "K_1", "K_2" >>]
  ELSE [payoff |-> Max(S_T - q * e.K_1, 0) - Max(S_T - q * e.K_2, 0) - q * e.D,
        max_profit |-> Num(e.K_2 - e.K_1 - e.D),
        max_loss |-> Num(e.D)]

\* Bull Put Spread
BullPutSpread(step, S_T, q, e) ==
  IF step = "step6"
  THEN [legs |-> << [name |-> "D_1", chain |-> "puts", strike |-> "K_1", mult |-> 1],
                   [name |-> "C_1", chain |-> "puts", strike |-> "K_2", mult |-> 1] >>,
        net |-> << [name |-> "C", plus |-> {"C_1"}, minus |-> {"D_1"}] >>,
        ref |-> << "K_1", "K_2" >>]
  ELSE [payoff |-> Max(q * e.K_1 - S_T, 0) - Max(q * e.K_2 - S_T, 0) + q * e.C,
        max_profit |-> Num(e.C),
        max_loss |-> Num(e.K_2 - e.K_1 - e.C)]

\* Bear Call Spread
BearCallSpread(step, S_T, q, e) ==
  IF step = "step6"
  THEN [legs |-> << [name |-> "D_1", chain |-> "calls", strike |-> "K_1", mult |-> 1],
                   [name |-> "C_1", chain |-> "calls", strike |-> "K_2", mult |-> 1] >>,
        net |-> << [name |-> "C", plus |-> {"C_1"}, minus |-> {"D_1"}] >>,
        ref |-> << "K_1", "K_2" >>]
  ELSE [payoff |-> Max(S_T - q * e.K_1, 0) - Max(S_T - q * e.K_2, 0) + q * e.C,
        max_profit |-> Num(e.C),
        max_loss |-> Num(e.K_1 - e.K_2 - e.C)]

\* Bear Put Spread
BearPutSpread(step, S_T, q, e) ==
  IF step = "step6"
  THEN [legs |-> << [name |-> "D_1", chain |-> "puts", strike |-> "K_1", mult |-> 1],
                   [name |-> "C_1", chain |-> "puts", strike |-> "K_2", mult |-> 1] >>,
        net |-> << [name |-> "D", plus |-> {"D_1"}, minus |-> {"C_1"}] >>,
        ref |-> << "K_1", "K_2" >>]
  ELSE [payoff |-> Max(q * e.K_1 - S_T, 0) - Max(q * e.K_2 - S_T, 0) - q * e.D,
        max_profit |-> Num(e.K_1 - e.K_2 - e.D),
        max_loss |-> Num(e.D)]

\* Long Synthetic Forward
LongSyntheticForward(step, S_T, q, e) ==
  IF step = "step6"
  THEN [legs |-> << [name |-> "D", chain |-> "calls", strike |-> "K", mult |-> 1],
                   [name |-> "C", chain |-> "puts", strike |-> "K", mult |-> 1] >>,
        net |-> << [name |-> "H", plus |-> {"D"}, minus |-> {"C"}] >>,
        ref |-> << "K" >>]
  ELSE [payoff |-> Max(S_T - q * e.K, 0) - Max(q * e.K - S_T, 0) - q * e.H,
        max_profit |-> inf,
        max_loss |-> Num(e.K + e.H)]

\* Short Synthetic Forward
ShortSyntheticForward(step, S_T, q, e) ==
  IF step = "step6"
  THEN [legs |-> << [name |-> "D", chain |-> "puts", strike |-> "K", mult |-> 1],
                   [name |-> "C", chain |-> "calls", strike |-> "K", mult |-> 1] >>,
        net |-> << [name |-> "H", plus |-> {"D"}, minus |-> {"C"}] >>,
        ref |-> << "K" >>]
  ELSE [payoff |-> Max(q * e.K - S_T, 0) - Max(S_T - q * e.K, 0) - q * e.H,
        max_profit |-> Num(e.K - e.H),
        max_loss |-> inf]

\* Long Combo
LongCombo(step, S_T, q, e) ==
  IF step = "step6"
  THEN [legs |-> << [name |-> "D", chain |-> "calls", strike |-> "K_1", mult |-> 1],
                   [name |-> "C", chain |-> "puts", strike |-> "K_2", mult |-> 1] >>,
        net |-> << [name |-> "H", plus |-> {"D"}, minus |-> {"C"}] >>,
        ref |-> << "K_1", "K_2" >>]
  ELSE [payoff |-> Max(S_T - q * e.K_1, 0) - Max(q * e.K_2 - S_T, 0) - q * e.H,
        max_profit |-> inf,
        max_loss |-> Num(e.K_2 + e.H)]

\* Short Combo
ShortCombo(step, S_T, q, e) ==
  IF step = "step6"
  THEN [legs |-> << [name |-> "D", chain |-> "puts", strike |-> "K_1", mult |-> 1],
                   [name |-> "C", chain |-> "calls", strike |-> "K_2", mult |-> 1] >>,
        net |-> << [name |-> "H", plus |-> {"D"}, minus |-> {"C"}] >>,
        ref |-> << "K_1", "K_2" >>]
  ELSE [payoff |-> Max(q * e.K_1 - S_T, 0) - Max(S_T - q * e.K_2, 0) - q * e.H,
        max_profit |-> Num(e.K_1 - e.H),
        max_loss |-> inf]

\* Bull Call Ladder
BullCallLadder(step, S_T, q, e) ==
  IF step = "step6"
  THEN [legs |-> << [name |-> "D_1", chain |-> "calls", strike |-> "K_1", mult |-> 1],
                   [name |-> "C_1", chain |-> "calls", strike |-> "K_2", mult |-> 1],
                   [name |-> "C_2", chain |-> "calls", strike |-> "K_3", mult |-> 1] >>,
        net |-> << [name |-> "H", plus |-> {"D_1"}, minus |-> {"C_1", "C_2"}] >>,
        ref |-> << "K_1", "K_2", "K_3" >>]
  ELSE [payoff |-> Max(S_T - q * e.K_1, 0) - Max(S_T - q * e.K_2, 0) - Max(S_T - q * e.K_3, 0) - q * e.H,
        max_profit |-> Num(e.K_2 - e.K_1 - e.H),
        max_loss |-> inf]

\* Bear Call Ladder
BearCallLadder(step, S_T, q, e) ==
  IF step = "step6"
  THEN [legs |-> << [name |-> "C_1", chain |-> "calls", strike |-> "K_1", mult |-> 1],
                   [name |-> "D_1", chain |-> "calls", strike |-> "K_2", mult |-> 1],
                   [name |-> "D_2", chain |-> "calls", strike |-> "K_3", mult |-> 1] >>,
        net |-> << [name |-> "H", plus |-> {"D_1", "D_2"}, minus |-> {"C_1"}] >>,
        ref |-> << "K_1", "K_2", "K_3" >>]
  ELSE [payoff |-> Max(S_T - q * e.K_3, 0) + Max(S_T - q * e.K_2, 0) - Max(S_T - q * e.K_1, 0) - q * e.H,
        max_profit |-> inf,
        max_loss |-> Num(e.K_2 - e.K_1 + e.H)]

\* Bull Put Ladder
BullPutLadder(step, S_T, q, e) ==
  IF step = "step6"
  THEN [legs |-> << [name |-> "C_1", chain |-> "puts", strike |-> "K_1", mult |-> 1],
                   [name |-> "D_1", chain |-> "puts", strike |-> "K_2", mult |-> 1],
                   [name |-> "D_2", chain |-> "puts", strike |-> "K_3", mult |-> 1] >>,
        net |-> << [name |-> "H", plus |-> {"D_1", "D_2"}, minus |-> {"C_1"}] >>,
        ref |-> << "K_1", "K_2", "K_3" >>]
  ELSE [payoff |-> Max(q * e.K_3 - S_T, 0) + Max(q * e.K_2 - S_T, 0) - Max(q * e.K_1 - S_T, 0) - q * e.H,
        max_profit |-> Num(e.K_3 + e.K_2 - e.K_1 - e.H),
        max_loss |-> Num(e.K_1 - e.K_2 + e.H)]

\* Bear Put Ladder
BearPutLadder(step, S_T, q, e) ==
  IF step = "step6"
  THEN [legs |-> << [name |-> "D_1", chain |-> "puts", strike |-> "K_1", mult |-> 1],
                   [name |-> "C_1", chain |-> "puts", strike |-> "K_2", mult |-> 1],
                   [name |-> "C_2", chain |-> "puts", strike |-> "K_3", mult |-> 1] >>,
        net |-> << [name |-> "H", plus |-> {"D_1"}, minus |-> {"C_1", "C_2"}] >>,
        ref |-> << "K_1", "K_2", "K_3" >>]
  ELSE [payoff |-> Max(q * e.K_1 - S_T, 0) - Max(q * e.K_2 - S_T, 0) - Max(q * e.K_3 - S_T, 0) - q * e.H,
        max_profit |-> Num(e.K_1 - e.K_2 - e.H),
        max_loss |-> Num(e.K_3 + e.K_2 - e.K_1 + e.H)]

\* Long Straddle
LongStraddle(step, S_T, q, e) ==
  IF step = "step6"
  THEN [legs |-> << [name |-> "D_1", chain |-> "calls", strike |-> "K", mult |-> 1],
                   [name |-> "D_2", chain |-> "puts", strike |-> "K", mult |-> 1] >>,
        net |-> << [name |-> "D", plus |-> {"D_1", "D_2"}, minus |-> {}] >>,
        ref |-> << "K" >>]
  ELSE [payoff |-> Max(S_T - q * e.K, 0) + Max(q * e.K - S_T, 0) - q * e.D,
        max_profit |-> inf,
        max_loss |-> Num(e.D),
        S_up |-> Num(e.K + e.D),
        S_down |-> Num(e.K - e.D)]

\* Short Straddle
ShortStraddle(step, S_T, q, e) ==
  IF step = "step6"
  THEN [legs |-> << [name |-> "C_1", chain |-> "calls", strike |-> "K", mult |-> 1],
                   [name |-> "C_2", chain |-> "puts", strike |-> "K", mult |-> 1] >>,
        net |-> << [name |-> "C", plus |-> {"C_1", "C_2"}, minus |-> {}] >>,
        ref |-> << "K" >>]
  ELSE [payoff |-> 0 - Max(S_T - q * e.K, 0) - Max(q * e.K - S_T, 0) + q * e.C,
        max_profit |-> Num(e.C),
        max_loss |-> inf,
        S_up |-> Num(e.K + e.C),
        S_down |-> Num(e.K - e.C)]

\* Long Strangle
LongStrangle(step, S_T, q, e) ==
  IF step = "step6"
  THEN [legs |-> << [name |-> "D_1", chain |-> "calls", strike |-> "K_1", mult |-> 1],
                   [name |-> "D_2", chain |-> "puts", strike |-> "K_2", mult |-> 1] >>,
        net |-> << [name |-> "D", plus |-> {"D_1", "D_2"}, minus |-> {}] >>,
        ref |-> << "K_1", "K_2" >>]
  ELSE [payoff |-> Max(S_T - q * e.K_1, 0) + Max(q * e.K_2 - S_T, 0) - q * e.D,
        max_profit |-> inf,
        max_loss |-> Num(e.D),
        S_up |-> Num(e.K_1 + e.D),
        S_down |-> Num(e.K_2 - e.D)]

\* Short Strangle
ShortStrangle(step, S_T, q, e) ==
  IF step = "step6"
  THEN [legs |-> << [name |-> "C_1", chain |-> "calls", strike |-> "K_1", mult |-> 1],
                   [name |-> "C_2", chain |-> "puts", strike |-> "K_2", mult |-> 1] >>,
        net |-> << [name |-> "C", plus |-> {"C_1", "C_2"}, minus |-> {}] >>,
        ref |-> << "K_1", "K_2" >>]
  ELSE [payoff |-> 0 - Max(S_T - q * e.K_1, 0) - Max(q * e.K_2 - S_T, 0) + q * e.C,
        max_profit |-> Num(e.C),
        max_loss |-> inf,
        S_up |-> Num(e.K_1 + e.C),
        S_down |-> Num(e.K_2 - e.C)]

\* Long Guts
LongGuts(step, S_T, q, e) ==
  IF step = "step6"
  THEN [legs |-> << [name |-> "D_1", chain |-> "calls", strike |-> "K_1", mult |-> 1],
                   [name |-> "D_2", chain |-> "puts", strike |-> "K_2", mult |-> 1] >>,
        net |-> << [name |-> "D", plus |-> {"D_1", "D_2"}, minus |-> {}] >>,
        ref |-> << "K_1", "K_2" >>]
  ELSE [payoff |-> Max(S_T - q * e.K_1, 0) + Max(q * e.K_2 - S_T, 0) - q * e.D,
        max_profit |-> inf,
        max_loss |-> Num(e.D),
        S_up |-> Num(e.K_1 + e.D),
        S_down |-> Num(e.K_2 - e.D)]

\* Short Guts
ShortGuts(step, S_T, q, e) ==
  IF step = "step6"
  THEN [legs |-> << [name |-> "C_1", chain |-> "calls", strike |-> "K_1", mult |-> 1],
                   [name |-> "C_2", chain |-> "puts", strike |-> "K_2", mult |-> 1] >>,
        net |-> << [name |-> "C", plus |-> {"C_1", "C_2"}, minus |-> {}] >>,
        ref |-> << "K_1", "K_2" >>]
  ELSE [payoff |-> 0 - Max(S_T - q * e.K_1, 0) - Max(q * e.K_2 - S_T, 0) + q * e.C,
        max_profit |-> Num(e.C - (e.K_2 - e.K_1)),
        max_loss |-> inf,
        S_up |-> Num(e.K_1 + e.C),
        S_down |-> Num(e.K_2 - e.C)]

\* Long Call Synthetic Straddle
LongCallSyntheticStraddle(step, S_T, q, e) ==
  IF step = "step6"
  THEN [legs |-> << [name |-> "D", chain |-> "calls", strike |-> "K", mult |-> 2] >>,
        net |-> <<  >>,
        ref |-> << "K" >>]
  ELSE [payoff |-> q * e.S_0 - S_T + 2 * Max(S_T - q * e.K, 0) - q * e.D,
        max_profit |-> inf,
        max_loss |-> Num(e.D - (e.S_0 - e.K)),
        S_up |-> Num(2 * e.K - e.S_0 + e.D),
        S_down |-> Num(e.S_0 - e.D)]

\* Long Put Synthetic Straddle
LongPutSyntheticStraddle(step, S_T, q, e) ==
  IF step = "step6"
  THEN [legs |-> << [name |-> "D", chain |-> "puts", strike |-> "K", mult |-> 2] >>,
        net |-> <<  >>,
        ref |-> << "K" >>]
  ELSE [payoff |-> S_T - q * e.S_0 + 2 * Max(q * e.K - S_T, 0) - q * e.D,
        max_profit |-> inf,
        max_loss |-> Num(e.D - (e.K - e.S_0)),
        S_up |-> Num(e.S_0 + e.D),
        S_down |-> Num(2 * e.K - e.S_0 - e.D)]

\* Short Call Synthetic Straddle
ShortCallSyntheticStraddle(step, S_T, q, e) ==
  IF step = "step6"
  THEN [legs |-> << [name |-> "C", chain |-> "calls", strike |-> "K", mult |-> 2] >>,
        net |-> <<  >>,
        ref |-> << "K" >>]
  ELSE [payoff |-> S_T - q * e.S_0 - 2 * Max(S_T - q * e.K, 0) + q * e.C,
        max_profit |-> Num(e.K - e.S_0 + e.C),
        max_loss |-> inf,
        S_up |-> Num(2 * e.K - e.S_0 + e.C),
        S_down |-> Num(e.S_0 - e.C)]

\* Short Put Synthetic Straddle
ShortPutSyntheticStraddle(step, S_T, q, e) ==
  IF step = "step6"
  THEN [legs |-> << [name |-> "C", chain |-> "puts", strike |-> "K", mult |-> 2] >>,
        net |-> <<  >>,
        ref |-> << "K" >>]
  ELSE [payoff |-> q * e.S_0 - S_T - 2 * Max(q * e.K - S_T, 0) + q * e.C,
        max_profit |-> Num(e.S_0 - e.K + e.C),
        max_loss |-> inf,
        S_up |-> Num(e.S_0 + e.C),
        S_down |-> Num(2 * e.K - e.S_0 - e.C)]

\* Covered Short Straddle
CoveredShortStraddle(step, S_T, q, e) ==
  IF step = "step6"
  THEN [legs |-> << [name |-> "C_1", chain |-> "calls", strike |-> "K", mult |-> 1],
                   [name |-> "C_2", chain |-> "puts", strike |-> "K", mult |-> 1] >>,
        net |-> << [name |-> "C", plus |-> {"C_1", "C_2"}, minus |-> {}] >>,
        ref |-> << "K" >>]
  ELSE [payoff |-> S_T - q * e.S_0 - Max(S_T - q * e.K, 0) - Max(q * e.K - S_T, 0) + q * e.C,
        max_profit |-> Num(e.K - e.S_0 + e.C),
        max_loss |-> Num(e.S_0 + e.K - e.C),
        S_up |-> Frac(e.S_0 + e.K - e.C, 2)]

\* Covered Short Strangle
CoveredShortStrangle(step, S_T, q, e) ==
  IF step = "step6"
  THEN [legs |-> << [name |-> "C_1", chain |-> "calls", strike |-> "K_1", mult |-> 1],
                   [name |-> "C_2", chain |-> "puts", strike |-> "K_2", mult |-> 1] >>,
        net |-> << [name |-> "C", plus |-> {"C_1", "C_2"}, minus |-> {}] >>,
        ref |-> << "K_1", "K_2" >>]
  ELSE [payoff |-> S_T - q * e.S_0 - Max(S_T - q * e.K_1, 0) - Max(q * e.K_2 - S_T, 0) + q * e.C,
        max_profit |-> Num(e.K_1 - e.S_0 + e.C),
        max_loss |-> Num(e.S_0 + e.K_2 - e.C)]

\* Strap
Strap(step, S_T, q, e) ==
  IF step = "step6"
  THEN [legs |-> << [name |-> "D_1", chain |-> "calls", strike |-> "K", mult |-> 2],
                   [name |-> "D_2", chain |-> "puts", strike |-> "K", mult |-> 1] >>,
        net |-> << [name |-> "D", plus |-> {"D_1", "D_2"}, minus |-> {}] >>,
        ref |-> << "K" >>]
  ELSE [payoff |-> 2 * Max(S_T - q * e.K, 0) + Max(q * e.K - S_T, 0) - q * e.D,
        max_profit |-> inf,
        max_loss |-> Num(e.D),
        S_up |-> Frac(e.K * 2 + e.D, 2),
        S_down |-> Num(e.K - e.D)]

\* Strip
Strip(step, S_T, q, e) ==
  IF step = "step6"
  THEN [legs |-> << [name |-> "D_1", chain |-> "calls", strike |-> "K", mult |-> 1],
                   [name |-> "D_2", chain |-> "puts", strike |-> "K", mult |-> 2] >>,
        net |-> << [name |-> "D", plus |-> {"D_1", "D_2"}, minus |-> {}] >>,
        ref |-> << "K" >>]
  ELSE [payoff |-> Max(S_T - q * e.K, 0) + 2 * Max(q * e.K - S_T, 0) - q * e.D,
        max_profit |-> inf,
        max_loss |-> Num(e.D),
        S_up |-> Num(e.K + e.D),
        S_down |-> Frac(e.K * 2 - e.D, 2)]

\* Call Ratio Backspread
CallRatioBackspread(step, S_T, q, e) ==
  IF step = "step6"
  THEN [legs |-> << [name |-> "C", chain |-> "calls", strike |-> "K_1", mult |-> ns["N_S"].val],
                   [name |-> "D", chain |-> "calls", strike |-> "K_2", mult |-> ns["N_L"].val] >>,
        net |-> << [name |-> "H", plus |-> {"D"}, minus |-> {"C"}] >>,
        ref |-> << "K_1", "K_2" >>]
  ELSE [payoff |-> e.N_L * Max(S_T - q * e.K_2, 0) - e.N_S * Max(S_T - q * e.K_1, 0) - q * e.H,
        max_profit |-> inf,
        max_loss |-> Num(e.N_S * (e.K_2 - e.K_1) + e.H),
        S_down |-> Frac(e.K_1 * e.N_S + e.H, e.N_S),
        S_up |-> Frac(e.N_L * e.K_2 - e.N_S * e.K_1 + e.H, e.N_L - e.N_S)]

\* Put Ratio Backspread
PutRatioBackspread(step, S_T, q, e) ==
  IF step = "step6"
  THEN [legs |-> << [name |-> "C", chain |-> "puts", strike |-> "K_1", mult |-> ns["N_S"].val],
                   [name |-> "D", chain |-> "puts", strike |-> "K_2", mult |-> ns["N_L"].val] >>,
        net |-> << [name |-> "H", plus |-> {"D"}, minus |-> {"C"}] >>,
        ref |-> << "K_1", "K_2" >>]
  ELSE [payoff |-> e.N_L * Max(q * e.K_2 - S_T, 0) - e.N_S * Max(q * e.K_1 - S_T, 0) - q * e.H,
        max_profit |-> Num(e.N_L * e.K_2 - e.N_S * e.K_1 - e.H),
        max_loss |-> Num(e.N_S * (e.K_1 - e.K_2) + e.H),
        S_up |-> Frac(e.K_1 * e.N_S + e.H, e.N_S),
        S_down |-> Frac(e.N_L * e.K_2 - e.N_S * e.K_1 - e.H, e.N_L - e.N_S)]

\* Ratio Call Spread
RatioCallSpread(step, S_T, q, e) ==
  IF step = "step6"
  THEN [legs |-> << [name |-> "C", chain |-> "calls", strike |-> "K_1", mult |-> ns["N_S"].val],
                   [name |-> "D", chain |-> "calls", strike |-> "K_2", mult |-> ns["N_L"].val] >>,
        net |-> << [name |-> "H", plus |-> {"D"}, minus |-> {"C"}] >>,
        ref |-> << "K_1", "K_2" >>]
  ELSE [payoff |-> e.N_L * Max(S_T - q * e.K_2, 0) - e.N_S * Max(S_T - q * e.K_1, 0) - q * e.H,
        max_profit |-> Num(e.N_L * (e.K_1 - e.K_2) - e.H),
        max_loss |-> inf,
        S_up |-> Frac(e.K_2 * e.N_L + e.H, e.N_L),
        S_down |-> Frac(e.N_S * e.K_1 - e.N_L * e.K_2 + e.H, e.N_S - e.N_L)]

\* Ratio Put Spread
RatioPutSpread(step, S_T, q, e) ==
  IF step = "step6"
  THEN [legs |-> << [name |-> "C", chain |-> "puts", strike |-> "K_1", mult |-> ns["N_S"].val],
                   [name |-> "D", chain |-> "puts", strike |-> "K_2", mult |-> ns["N_L"].val] >>,
        net |-> << [name |-> "H", plus |-> {"D"}, minus |-> {"C"}] >>,
        ref |-> << "K_1", "K_2" >>]
  ELSE [payoff |-> e.N_L * Max(q * e.K_2 - S_T, 0) - e.N_S * Max(q * e.K_1 - S_T, 0) - q * e.H,
        max_profit |-> Num(e.N_L * (e.K_2 - e.K_1) - e.H),
        max_loss |-> Num(e.N_S * e.K_1 - e.N_L * e.K_2 + e.H),
        S_up |-> Frac(e.K_1 * e.N_S + e.H, e.N_S),
        S_down |-> Frac(e.N_L * e.K_2 - e.N_S * e.K_1 + e.H, e.N_L - e.N_S)]

\* Long Call Butterfly
LongCallButterfly(step, S_T, q, e) ==
  IF step = "step6"
  THEN [legs |-> << [name |-> "D_1", chain |-> "calls", strike |-> "K_1", mult |-> 1],
                   [name |-> "C_1", chain |-> "calls", strike |-> "K_2", mult |-> 2],
                   [name |-> "D_2", chain |-> "calls", strike |-> "K_3", mult |-> 1] >>,
        net |-> << [name |-> "D", plus |-> {"D_1", "D_2"}, minus |-> {"C_1"}] >>,
        ref |-> << "K_1", "K_2", "K_3" >>]
  ELSE [payoff |-> Max(S_T - q * e.K_1, 0) + Max(S_T - q * e.K_3, 0) - 2 * Max(S_T - q * e.K_2, 0) - q * e.D,
        max_profit |-> Num(e.K_2 - e.K_1 - e.D),
        max_loss |-> Num(e.D),
        S_up |-> Num(e.K_1 - e.D),
        S_down |-> Num(e.K_3 + e.D)]

\* Modified Call Butterfly
ModifiedCallButterfly(step, S_T, q, e) ==
  IF step = "step6"
  THEN [legs |-> << [name |-> "D_1", chain |-> "calls", strike |-> "K_1", mult |-> 1],
                   [name |-> "C_1", chain |-> "calls", strike |-> "K_2", mult |-> 2],
                   [name |-> "D_2", chain |-> "calls", strike |-> "K_3", mult |-> 1] >>,
        net |-> << [name |-> "D", plus |-> {"D_1", "D_2"}, minus |-> {"C_1"}] >>,
        ref |-> << "K_1", "K_2", "K_3" >>]
  ELSE [payoff |-> Max(S_T - q * e.K_1, 0) + Max(S_T - q * e.K_3, 0) - 2 * Max(S_T - q * e.K_2, 0) - q * e.D,
        max_profit |-> Num(e.K_2 - e.K_3 - e.D),
        max_loss |-> Num(e.D)]

\* Long Put Butterfly
LongPutButterfly(step, S_T, q, e) ==
  IF step = "step6"
  THEN [legs |-> << [name |-> "D_1", chain |-> "puts", strike |-> "K_1", mult |-> 1],
                   [name |-> "C_1", chain |-> "puts", strike |-> "K_2", mult |-> 2],
                   [name |-> "D_2", chain |-> "puts", strike |-> "K_3", mult |-> 1] >>,
        net |-> << [name |-> "D", plus |-> {"D_1", "D_2"}, minus |-> {"C_1"}] >>,
        ref |-> << "K_1", "K_2", "K_3" >>]
  ELSE [payoff |-> Max(q * e.K_1 - S_T, 0) + Max(q * e.K_3 - S_T, 0) - 2 * Max(q * e.K_2 - S_T, 0) - q * e.D,
        max_profit |-> Num(e.K_2 - e.K_1 - e.D),
        max_loss |-> Num(e.D),
        S_up |-> Num(e.K_3 - e.D),
        S_down |-> Num(e.K_1 + e.D)]

\* Modified Put Butterfly
ModifiedPutButterfly(step, S_T, q, e) ==
  IF step = "step6"
  THEN [legs |-> << [name |-> "D_1", chain |-> "puts", strike |-> "K_1", mult |-> 1],
                   [name |-> "C_1", chain |-> "puts", strike |-> "K_2", mult |-> 2],
                   [name |-> "D_2", chain |-> "puts", strike |-> "K_3", mult |-> 1] >>,
        net |-> << [name |-> "H", plus |-> {"D_1", "D_2"}, minus |-> {"C_1"}] >>,
        ref |-> << "K_1", "K_2", "K_3" >>]
  ELSE [payoff |-> Max(q * e.K_1 - S_T, 0) + Max(q * e.K_3 - S_T, 0) - 2 * Max(q * e.K_2 - S_T, 0) - q * e.H,
        max_profit |-> Num(e.K_3 - e.K_2 - e.H),
        max_loss |-> Num(2 * e.K_2 - e.K_1 - e.K_3 + e.H),
        S_down |-> Num(2 * e.K_2 - e.K_3 + e.H)]

\* Short Call Butterfly
ShortCallButterfly(step, S_T, q, e) ==
  IF step = "step6"
  THEN [legs |-> << [name |-> "C_1", chain |-> "calls", strike |-> "K_1", mult |-> 1],
                   [name |-> "D_1", chain |-> "calls", strike |-> "K_2", mult |-> 2],
                   [name |-> "C_2", chain |-> "calls", strike |-> "K_3", mult |-> 1] >>,
        net |-> << [name |-> "C", plus |-> {"C_1", "C_2"}, minus |-> {"D_1"}] >>,
        ref |-> << "K_1", "K_2", "K_3" >>]
  ELSE [payoff |-> 2 * Max(S_T - q * e.K_2, 0) - Max(S_T - q * e.K_1, 0) - Max(S_T - q * e.K_3, 0) + q * e.C,
        max_profit |-> Num(e.C),
        max_loss |-> Num(e.K_2 - e.K_1 - e.C),
        S_up |-> Num(e.K_3 - e.C),
        S_down |-> Num(e.K_1 + e.C)]

\* Short Put Butterfly
ShortPutButterfly(step, S_T, q, e) ==
  IF step = "step6"
  THEN [legs |-> << [name |-> "C_1", chain |-> "puts", strike |-> "K_1", mult |-> 1],
                   [name |-> "D_1", chain |-> "puts", strike |-> "K_2", mult |-> 2],
                   [name |-> "C_2", chain |-> "puts", strike |-> "K_3", mult |-> 1] >>,
        net |-> << [name |-> "C", plus |-> {"C_1", "C_2"}, minus |-> {"D_1"}] >>,
        ref |-> << "K_1", "K_2", "K_3" >>]
  ELSE [payoff |-> 2 * Max(q * e.K_2 - S_T, 0) - Max(q * e.K_1 - S_T, 0) - Max(q * e.K_3 - S_T, 0) + q * e.C,
        max_profit |-> Num(e.C),
        max_loss |-> Num(e.Kappa - e.C),
        S_up |-> Num(e.K_1 - e.C),
        S_down |-> Num(e.K_3 + e.C)]

\* Long Iron Butterfly
LongIronButterfly(step, S_T, q, e) ==
  IF step = "step6"
  THEN [legs |-> << [name |-> "D_1", chain |-> "puts", strike |-> "K_1", mult |-> 1],
                   [name |-> "C_1", chain |-> "puts", strike |-> "K_2", mult |-> 1],
                   [name |-> "C_2", chain |-> "calls", strike |-> "K_2", mult |-> 1],
                   [name |-> "D_2", chain |-> "calls", strike |-> "K_3", mult |-> 1] >>,
        net |-> << [name |-> "C", plus |-> {"C_1", "C_2"}, minus |-> {"D_1", "D_2"}] >>,
        ref |-> << "K_1", "K_2", "K_3" >>]
  ELSE [payoff |-> Max(q * e.K_1 - S_T, 0) - Max(q * e.K_2 - S_T, 0) - Max(S_T - q * e.K_2, 0) + Max(S_T - q * e.K_3, 0) + q * e.C,
        max_profit |-> Num(e.C),
        max_loss |-> Num(e.K_2 - e.K_1 - e.C),
        S_up |-> Num(e.K_2 + e.C),
        S_down |-> Num(e.K_2 - e.C)]

\* Short Iron Butterfly
ShortIronButterfly(step, S_T, q, e) ==
  IF step = "step6"
  THEN [legs |-> << [name |-> "C_1", chain |-> "puts", strike |-> "K_1", mult |-> 1],
                   [name |-> "D_1", chain |-> "puts", strike |-> "K_2", mult |-> 1],
                   [name |-> "D_2", chain |-> "calls", strike |-> "K_2", mult |-> 1],
                   [name |-> "C_2", chain |-> "calls", strike |-> "K_3", mult |-> 1] >>,
        net |-> << [name |-> "D", plus |-> {"D_1", "D_2"}, minus |-> {"C_1", "C_2"}] >>,
        ref |-> << "K_1", "K_2", "K_3" >>]
  ELSE [payoff |-> Max(q * e.K_2 - S_T, 0) + Max(S_T - q * e.K_2, 0) - Max(q * e.K_1 - S_T, 0) - Max(S_T - q * e.K_3, 0) - q * e.D,
        max_profit |-> Num(e.K_2 - e.K_1 - e.D),
        max_loss |-> Num(e.D),
        S_up |-> Num(e.K_2 + e.D),
        S_down |-> Num(e.K_2 - e.D)]

\* Long Call Condor
LongCallCondor(step, S_T, q, e) ==
  IF step = "step6"
  THEN [legs |-> << [name |-> "D_1", chain |-> "calls", strike |-> "K_1", mult |-> 1],
                   [name |-> "C_1", chain |-> "calls", strike |-> "K_2", mult |-> 1],
                   [name |-> "C_2", chain |-> "calls", strike |-> "K_3", mult |-> 1],
                   [name |-> "D_2", chain |-> "calls", strike |-> "K_4", mult |-> 1] >>,
        net |-> << [name |-> "D", plus |-> {"D_1", "D_2"}, minus |-> {"C_1", "C_2"}] >>,
        ref |-> << "K_1", "K_2", "K_3", "K_4" >>]
  ELSE [payoff |-> Max(S_T - q * e.K_1, 0) - Max(S_T - q * e.K_2, 0) - Max(S_T - q * e.K_3, 0) + Max(S_T - q * e.K_4, 0) - q * e.D,
        max_profit |-> Num(e.K_2 - e.K_1 - e.D),
        max_loss |-> Num(e.D),
        S_up |-> Num(e.K_4 - e.D),
        S_down |-> Num(e.K_1 + e.D)]

\* Long Put Condor
LongPutCondor(step, S_T, q, e) ==
  IF step = "step6"
  THEN [legs |-> << [name |-> "D_1", chain |-> "puts", strike |-> "K_1", mult |-> 1],
                   [name |-> "C_1", chain |-> "puts", strike |-> "K_2", mult |-> 1],
                   [name |-> "C_2", chain |-> "puts", strike |-> "K_3", mult |-> 1],
                   [name |-> "D_2", chain |-> "puts", strike |-> "K_4", mult |-> 1] >>,
        net |-> << [name |-> "D", plus |-> {"D_1", "D_2"}, minus |-> {"C_1", "C_2"}] >>,
        ref |-> << "K_1", "K_2", "K_3", "K_4" >>]
  ELSE [payoff |-> Max(q * e.K_1 - S_T, 0) - Max(q * e.K_2 - S_T, 0) - Max(q * e.K_3 - S_T, 0) + Max(q * e.K_4 - S_T, 0) - q * e.D,
        max_profit |-> Num(e.K_2 - e.K_1 - e.D),
        max_loss |-> Num(e.D),
        S_up |-> Num(e.K_4 - e.D),
        S_down |-> Num(e.K_1 + e.D)]

\* Short Call Condor
ShortCallCondor(step, S_T, q, e) ==
  IF step = "step6"
  THEN [legs |-> << [name |-> "C_1", chain |-> "calls", strike |-> "K_1", mult |-> 1],
                   [name |-> "D_1", chain |-> "calls", strike |-> "K_2", mult |-> 1],
                   [name |-> "D_2", chain |-> "calls", strike |-> "K_3", mult |-> 1],
                   [name |-> "C_2", chain |-> "calls", strike |-> "K_4", mult |-> 1] >>,
        net |-> << [name |-> "C", plus |-> {"C_1", "C_2"}, minus |-> {"D_1", "D_2"}] >>,
        ref |-> << "K_1", "K_2", "K_3", "K_4" >>]
  ELSE [payoff |-> Max(S_T - q * e.K_2, 0) + Max(S_T - q * e.K_3, 0) - Max(S_T - q * e.K_1, 0) - Max(S_T - q * e.K_4, 0) + q * e.C,
        max_profit |-> Num(e.C),
        max_loss |-> Num(e.K_2 - e.K_1 - e.C),
        S_up |-> Num(e.K_4 - e.C),
        S_down |-> Num(e.K_1 + e.C)]

\* Short Put Condor
ShortPutCondor(step, S_T, q, e) ==
  IF step = "step6"
  THEN [legs |-> << [name |-> "C_1", chain |-> "puts", strike |-> "K_1", mult |-> 1],
                   [name |-> "D_1", chain |-> "puts", strike |-> "K_2", mult |-> 1],
                   [name |-> "D_2", chain |-> "puts", strike |-> "K_3", mult |-> 1],
                   [name |-> "C_2", chain |-> "puts", strike |-> "K_4", mult |-> 1] >>,
        net |-> << [name |-> "C", plus |-> {"C_1", "C_2"}, minus |-> {"D_1", "D_2"}] >>,
        ref |-> << "K_1", "K_2", "K_3", "K_4" >>]
  ELSE [payoff |-> Max(q * e.K_2 - S_T, 0) + Max(q * e.K_3 - S_T, 0) - Max(q * e.K_1 - S_T, 0) - Max(q * e.K_4 - S_T, 0) + q * e.C,
        max_profit |-> Num(e.C),
        max_loss |-> Num(e.K_2 - e.K_1 - e.C),
        S_up |-> Num(e.K_4 - e.C),
        S_down |-> Num(e.K_1 + e.C)]

\* Long Iron Condor
LongIronCondor(step, S_T, q, e) ==
  IF step = "step6"
  THEN [legs |-> << [name |-> "D_1", chain |-> "puts", strike |-> "K_1", mult |-> 1],
                   [name |-> "C_1", chain |-> "puts", strike |-> "K_2", mult |-> 1],
                   [name |-> "C_2", chain |-> "calls", strike |-> "K_3", mult |-> 1],
                   [name |-> "D_2", chain |-> "calls", strike |-> "K_4", mult |-> 1] >>,
        net |-> << [name |-> "C", plus |-> {"C_1", "C_2"}, minus |-> {"D_1", "D_2"}] >>,
        ref |-> << "K_1", "K_2", "K_3", "K_4" >>]
  ELSE [payoff |-> Max(q * e.K_1 - S_T, 0) + Max(S_T - q * e.K_4, 0) - Max(q * e.K_2 - S_T, 0) - Max(S_T - q * e.K_3, 0) + q * e.C,
        max_profit |-> Num(e.C),
        max_loss |-> Num(e.K_2 - e.K_1 - e.C),
        S_up |-> Num(e.K_3 + e.C),
        S_down |-> Num(e.K_2 - e.C)]

\* Short Iron Condor
ShortIronCondor(step, S_T, q, e) ==
  IF step = "step6"
  THEN [legs |-> << [name |-> "C_1", chain |-> "puts", strike |-> "K_1", mult |-> 1],
                   [name |-> "D_1", chain |-> "puts", strike |-> "K_2", mult |-> 1],
                   [name |-> "D_2", chain |-> "calls", strike |-> "K_3", mult |-> 1],
                   [name |-> "C_2", chain |-> "calls", strike |-> "K_4", mult |-> 1] >>,
        net |-> << [name |-> "D", plus |-> {"D_1", "D_2"}, minus |-> {"C_1", "C_2"}] >>,
        ref |-> << "K_1", "K_2", "K_3", "K_4" >>]
  ELSE [payoff |-> Max(q * e.K_2 - S_T, 0) + Max(S_T - q * e.K_3, 0) - Max(q * e.K_1 - S_T, 0) - Max(S_T - q * e.K_4, 0) - q * e.D,
        max_profit |-> Num(e.K_2 - e.K_1 - e.D),
        max_loss |-> Num(e.D),
        S_up |-> Num(e.K_3 + e.D),
        S_down |-> Num(e.K_2 - e.D)]

\* Long Box
LongBox(step, S_T, q, e) ==
  IF step = "step6"
  THEN [legs |-> << [name |-> "D_1", chain |-> "puts", strike |-> "K_1", mult |-> 1],
                   [name |-> "C_1", chain |-> "calls", strike |-> "K_1", mult |-> 1],
                   [name |-> "C_2", chain |-> "puts", strike |-> "K_2", mult |-> 1],
                   [name |-> "D_2", chain |-> "calls", strike |-> "K_2", mult |-> 1] >>,
        net |-> << [name |-> "D", plus |-> {"D_1", "D_2"}, minus |-> {"C_1", "C_2"}] >>,
        ref |-> << "K_1_P", "K_2_P" >>]
  ELSE [payoff |-> Max(q * e.K_1 - S_T, 0) - Max(q * e.K_2 - S_T, 0) + Max(S_T - q * e.K_2, 0) - Max(S_T - q * e.K_1, 0) - q * e.D,
        max_profit |-> Num(e.K_1 - e.K_2 - e.D),
        max_loss |-> inf]

\* Collar
Collar(step, S_T, q, e) ==
  IF step = "step6"
  THEN [legs |-> << [name |-> "D", chain |-> "puts", strike |-> "K_1", mult |-> 1],
                   [name |-> "C", chain |-> "calls", strike |-> "K_2", mult |-> 1] >>,
        net |-> << [name |-> "H", plus |-> {"D"}, minus |-> {"C"}] >>,
        ref |-> << "K_1", "K_2" >>]
  ELSE [payoff |-> S_T - q * e.S_0 + Max(q * e.K_1 - S_T, 0) - Max(S_T - q * e.K_2, 0) - q * e.H,
        max_profit |-> Num(e.K_2 - e.S_0 - e.H),
        max_loss |-> Num(e.S_0 - e.K_1 + e.H)]

\* Bullish Short Seagull Spread
BullishShortSeagullSpread(step, S_T, q, e) ==
  IF step = "step6"
  THEN [legs |-> << [name |-> "C_1", chain |-> "puts", strike |-> "K_1", mult |-> 1],
                   [name |-> "D_1", chain |-> "calls", strike |-> "K_2", mult |-> 1],
                   [name |-> "C_2", chain |-> "calls", strike |-> "K_3", mult |-> 1] >>,
        net |-> << [name |-> "H", plus |-> {"D_1"}, minus |-> {"C_1", "C_2"}] >>,
        ref |-> << "K_1", "K_2", "K_3" >>]
  ELSE [payoff |-> 0 - Max(q * e.K_1 - S_T, 0) + Max(S_T - q * e.K_2, 0) - Max(S_T - q * e.K_3, 0) - q * e.H,
        max_profit |-> Num(e.K_3 - e.K_2 - e.H),
        max_loss |-> Num(e.K_1 + e.H)]

\* Bullish Long Seagull Spread
BullishLongSeagullSpread(step, S_T, q, e) ==
  IF step = "step6"
  THEN [legs |-> << [name |-> "D_1", chain |-> "puts", strike |-> "K_1", mult |-> 1],
                   [name |-> "C_1", chain |-> "puts", strike |-> "K_2", mult |-> 1],
                   [name |-> "D_2", chain |-> "calls", strike |-> "K_3", mult |-> 1] >>,
        net |-> << [name |-> "H", plus |-> {"D_1", "D_2"}, minus |-> {"C_1"}] >>,
        ref |-> << "K_1", "K_2", "K_3" >>]
  ELSE [payoff |-> Max(q * e.K_1 - S_T, 0) - Max(q * e.K_2 - S_T, 0) + Max(S_T - q * e.K_3, 0) - q * e.H,
        max_profit |-> inf,
        max_loss |-> Num(e.K_2 - e.K_1 + e.H)]

\* Bearish Long Seagull Spread
BearishLongSeagullSpread(step, S_T, q, e) ==
  IF step = "step6"
  THEN [legs |-> << [name |-> "D_1", chain |-> "puts", strike |-> "K_1", mult |-> 1],
                   [name |-> "C_1", chain |-> "calls", strike |-> "K_2", mult |-> 1],
                   [name |-> "D_2", chain |-> "calls", strike |-> "K_3", mult |-> 1] >>,
        net |-> << [name |-> "H", plus |-> {"D_1", "D_2"}, minus |-> {"C_1"}] >>,
        ref |-> << "K_1", "K_2", "K_3" >>]
  ELSE [payoff |-> Max(q * e.K_1 - S_T, 0) - Max(S_T - q * e.K_2, 0) + Max(S_T - q * e.K_3, 0) - q * e.H,
        max_profit |-> Num(e.K_1 - e.H),
        max_loss |-> Num(e.K_3 - e.K_2 + e.H)]

\* Bearish Short Seagull Spread
BearishShortSeagullSpread(step, S_T, q, e) ==
  IF step = "step6"
  THEN [legs |-> << [name |-> "C_1", chain |-> "puts", strike |-> "K_1", mult |-> 1],
                   [name |-> "D_1", chain |-> "puts", strike |-> "K_2", mult |-> 1],
                   [name |-> "C_2", chain |-> "calls", strike |-> "K_3", mult |-> 1] >>,
        net |-> << [name |-> "H", plus |-> {"D_1"}, minus |-> {"C_1", "C_2"}] >>,
        ref |-> << "K_1", "K_2", "K_3" >>]
  ELSE [payoff |-> 0 - Max(q * e.K_1 - S_T, 0) + Max(q * e.K_2 - S_T, 0) - Max(S_T - q * e.K_3, 0) - q * e.H,
        max_profit |-> Num(e.K_2 - e.K_1 - e.H),
        max_loss |-> inf]

(* ----------------------------- dispatch ------------------------------- *)
\* the if/elif chain on strategy
Branch(s, step, S_T, q, e) ==
  CASE s = "Covered Call" -> CoveredCall(step, S_T, q, e)
    [] s = "Covered Put" -> CoveredPut(step, S_T, q, e)
    [] s = "Protective Put" -> ProtectivePut(step, S_T, q, e)
    [] s = "Protective Call" -> ProtectiveCall(step, S_T, q, e)
    [] s = "Bull Call Spread" -> BullCallSpread(step, S_T, q, e)
    [] s = "Bull Put Spread" -> BullPutSpread(step, S_T, q, e)
    [] s = "Bear Call Spread" -> BearCallSpread(step, S_T, q, e)
    [] s = "Bear Put Spread" -> BearPutSpread(step, S_T, q, e)
    [] s = "Long Synthetic Forward" -> LongSyntheticForward(step, S_T, q, e)
    [] s = "Short Synthetic Forward" -> ShortSyntheticForward(step, S_T, q, e)
    [] s = "Long Combo" -> LongCombo(step, S_T, q, e)
    [] s = "Short Combo" -> ShortCombo(step, S_T, q, e)
    [] s = "Bull Call Ladder" -> BullCallLadder(step, S_T, q, e)
    [] s = "Bear Call Ladder" -> BearCallLadder(step, S_T, q, e)
    [] s = "Bull Put Ladder" -> BullPutLadder(step, S_T, q, e)
    [] s = "Bear Put Ladder" -> BearPutLadder(step, S_T, q, e)
    [] s = "Long Straddle" -> LongStraddle(step, S_T, q, e)
    [] s = "Short Straddle" -> ShortStraddle(step, S_T, q, e)
    [] s = "Long Strangle" -> LongStrangle(step, S_T, q, e)
    [] s = "Short Strangle" -> ShortStrangle(step, S_T, q, e)
    [] s = "Long Guts" -> LongGuts(step, S_T, q, e)
    [] s = "Short Guts" -> ShortGuts(step, S_T, q, e)
    [] s = "Long Call Synthetic Straddle" -> LongCallSyntheticStraddle(step, S_T, q, e)
    [] s = "Long Put Synthetic Straddle" -> LongPutSyntheticStraddle(step, S_T, q, e)
    [] s = "Short Call Synthetic Straddle" -> ShortCallSyntheticStraddle(step, S_T, q, e)
    [] s = "Short Put Synthetic Straddle" -> ShortPutSyntheticStraddle(step, S_T, q, e)
    [] s = "Covered Short Straddle" -> CoveredShortStraddle(step, S_T, q, e)
    [] s = "Covered Short Strangle" -> CoveredShortStrangle(step, S_T, q, e)
    [] s = "Strap" -> Strap(step, S_T, q, e)
    [] s = "Strip" -> Strip(step, S_T, q, e)
    [] s = "Call Ratio Backspread" -> CallRatioBackspread(step, S_T, q, e)
    [] s = "Put Ratio Backspread" -> PutRatioBackspread(step, S_T, q, e)
    [] s = "Ratio Call Spread" -> RatioCallSpread(step, S_T, q, e)
    [] s = "Ratio Put Spread" -> RatioPutSpread(step, S_T, q, e)
    [] s = "Long Call Butterfly" -> LongCallButterfly(step, S_T, q, e)
    [] s = "Modified Call Butterfly" -> ModifiedCallButterfly(step, S_T, q, e)
    [] s = "Long Put Butterfly" -> LongPutButterfly(step, S_T, q, e)
    [] s = "Modified Put Butterfly" -> ModifiedPutButterfly(step, S_T, q, e)
    [] s = "Short Call Butterfly" -> ShortCallButterfly(step, S_T, q, e)
    [] s = "Short Put Butterfly" -> ShortPutButterfly(step, S_T, q, e)
    [] s = "Long Iron Butterfly" -> LongIronButterfly(step, S_T, q, e)
    [] s = "Short Iron Butterfly" -> ShortIronButterfly(step, S_T, q, e)
    [] s = "Long Call Condor" -> LongCallCondor(step, S_T, q, e)
    [] s = "Long Put Condor" -> LongPutCondor(step, S_T, q, e)
    [] s = "Short Call Condor" -> ShortCallCondor(step, S_T, q, e)
    [] s = "Short Put Condor" -> ShortPutCondor(step, S_T, q, e)
    [] s = "Long Iron Condor" -> LongIronCondor(step, S_T, q, e)
    [] s = "Short Iron Condor" -> ShortIronCondor(step, S_T, q, e)
    [] s = "Long Box" -> LongBox(step, S_T, q, e)
    [] s = "Collar" -> Collar(step, S_T, q, e)
    [] s = "Bullish Short Seagull Spread" -> BullishShortSeagullSpread(step, S_T, q, e)
    [] s = "Bullish Long Seagull Spread" -> BullishLongSeagullSpread(step, S_T, q, e)
    [] s = "Bearish Long Seagull Spread" -> BearishLongSeagullSpread(step, S_T, q, e)
    [] s = "Bearish Short Seagull Spread" -> BearishShortSeagullSpread(step, S_T, q, e)

\* Steps 6 and 7 of the branch: lookups, net premium, strikes of the range
Step6(s) == Branch(s, "step6", 0, 1, <<>>)
\* Step 8 of the branch at terminal price S_T / q; payoff is scaled by q
Step8(s, S_T, q, e) == Branch(s, "step8", S_T, q, e)

(* ------------------------ catalog and menus --------------------------- *)
\* the keys of strategies_informations
strategies_informations ==
  {"Covered Call", "Covered Put", "Protective Put", "Protective Call",
   "Bull Call Spread", "Bull Put Spread", "Bear Call Spread",
   "Bear Put Spread", "Long Synthetic Forward", "Short Synthetic Forward",
   "Long Combo", "Short Combo", "Bull Call Ladder", "Bear Call Ladder",
   "Bull Put Ladder", "Bear Put Ladder", "Calendar Call Spread",
   "Calendar Put Spread", "Diagonal Call Spread", "Diagonal Put Spread",
   "Long Straddle", "Short Straddle", "Long Strangle", "Short Strangle",
   "Long Guts", "Short Guts", "Long Call Synthetic Straddle",
   "Long Put Synthetic Straddle", "Short Call Synthetic Straddle",
   "Short Put Synthetic Straddle", "Covered Short Straddle",
   "Covered Short Strangle", "Strap", "Strip", "Call Ratio Backspread",
   "Put Ratio Backspread", "Ratio Call Spread", "Ratio Put Spread",
   "Long Call Butterfly", "Modified Call Butterfly", "Long Put Butterfly",
   "Modified Put Butterfly", "Short Call Butterfly", "Short Put Butterfly",
   "Long Iron Butterfly", "Short Iron Butterfly", "Long Call Condor",
   "Short Call Condor", "Long Put Condor", "Short Put Condor",
   "Long Iron Condor", "Short Iron Condor", "Long Box", "Collar",
   "Bullish Short Seagull Spread", "Bullish Long Seagull Spread",
   "Bearish Short Seagull Spread", "Bearish Long Seagull Spread"}

\* every name the four sidebar menus can yield
menu_strategies ==
  {"Covered Call", "Protective Put", "Bull Call Spread", "Bull Put Spread",
   "Long Synthetic Forward", "Bull Call Ladder", "Bear Call Ladder",
   "Long Combo", "Diagonal Call Spread", "Covered Short Straddle",
   "Covered Short Strangle", "Strap", "Modified Call Butterfly",
   "Modified Put Butterfly", "Call Ratio Backspread",
   "Bullish Short Seagull Spread", "Bullish Long Seagull Spread",
   "Covered Put", "Protective Call", "Bear Call Spread", "Bear Put Spread",
   "Short Synthetic Forward", "Short Combo", "Bull Put Ladder",
   "Bear Put Ladder", "Diagonal Put Spread", "Strip", "Put Ratio Backspread",
   "Ratio Put Spread", "Bearish Short Seagull Spread",
   "Bearish Long Seagull Spread", "Long Straddle", "Long Strangle",
   "Long Guts", "Short Call Butterfly", "Short Put Butterfly",
   "Short Iron Butterfly", "Short Call Condor", "Short Put Condor",
   "Short Iron Condor", "Long Box", "Long Call Synthetic Straddle",
   "Long Put Synthetic Straddle", "Calendar Call Spread",
   "Calendar Put Spread", "Short Straddle", "Short Strangle", "Short Guts",
   "Short Call Synthetic Straddle", "Short Put Synthetic Straddle",
   "Ratio Call Spread", "Long Call Butterfly", "Long Put Butterfly",
   "Long Iron Butterfly", "Long Call Condor", "Long Put Condor",
   "Long Iron Condor", "Collar"}

\* the strategies whose payoff is valued with Black-Scholes
calendar_strategies ==
  {"Calendar Call Spread", "Calendar Put Spread",
   "Diagonal Call Spread", "Diagonal Put Spread"}

\* Step 10 with Long Box left to the fallback case, which reads K
plot_K1_K2_without_Long_Box ==
  {"Diagonal Call Spread", "Diagonal Put Spread", "Collar",
   "Ratio Put Spread", "Ratio Call Spread", "Put Ratio Backspread",
   "Call Ratio Backspread", "Long Strangle", "Short Strangle", "Long Guts",
   "Short Guts", "Covered Short Strangle", "Bull Call Spread",
   "Bull Put Spread", "Bear Call Spread", "Bear Put Spread", "Long Combo",
   "Short Combo"}

\* Step 10: the strike names the plot reads for each strategy
plot_K1_K2 ==
  {"Diagonal Call Spread", "Diagonal Put Spread", "Collar", "Long Box",
   "Ratio Put Spread", "Ratio Call Spread", "Put Ratio Backspread",
   "Call Ratio Backspread", "Long Strangle", "Short Strangle", "Long Guts",
   "Short Guts", "Covered Short Strangle", "Bull Call Spread",
   "Bull Put Spread", "Bear Call Spread", "Bear Put Spread", "Long Combo",
   "Short Combo"}
plot_K1_K2_K3 ==
  {"Bearish Short Seagull Spread", "Bearish Long Seagull Spread",
   "Bullish Long Seagull Spread", "Bullish Short Seagull Spread",
   "Short Iron Butterfly", "Long Iron Butterfly", "Short Put Butterfly",
   "Short Call Butterfly", "Modified Put Butterfly",
   "Modified Call Butterfly", "Long Put Butterfly", "Long Call Butterfly",
   "Bear Put Ladder", "Bear Call Ladder", "Bull Put Ladder",
   "Bull Call Ladder"}
plot_K1_K2_K3_K4 ==
  {"Short Iron Condor", "Long Iron Condor", "Short Put Condor",
   "Long Put Condor", "Short Call Condor", "Long Call Condor"}
plot_strikes(s) ==
  IF s \in plot_K1_K2 THEN <<"K_1", "K_2">>
  ELSE IF s \in plot_K1_K2_K3 THEN <<"K_1", "K_2", "K_3">>
  ELSE IF s \in plot_K1_K2_K3_K4 THEN <<"K_1", "K_2", "K_3", "K_4">>
  ELSE <<"K">>

NumSamples == 100


(* ------------------ Steps 6 to 9 of a strategy branch ----------------- *)

\* price range that starts at 0 instead of S_T_min
linspace_from_zero(sumK, lo, hi) ==
  [i \in 0..(NumSamples - 1) |-> i * sumK * hi]

\* np.linspace(S_T_min, S_T_max, 100) with S_T_min = mean * min% / 100 and
\* S_T_max = mean * max% / 100, mean = sumK / n; numerators over linspace_den(n)
linspace_den(n) == n * 100 * (NumSamples - 1)
linspace(sumK, lo, hi) ==
  [i \in 0..(NumSamples - 1) |->
     sumK * lo * (NumSamples - 1) + i * sumK * (hi - lo)]

\* an uncaught exception ends the run
Crash(bindings, done, exc) ==
  /\ pc' = "crashed"
  /\ exception' = exc
  /\ ns' = bindings @@ ns
  /\ lookups' = lookups \o done
  /\ UNCHANGED <<inputs, offered, st_error>>

\* option_chain.X[option_chain.X['strike'] == K]['lastPrice'].values[0] finds
\* no row when K is None or is not a quoted strike (an unbound K is a NameError)
lookup_fails(leg, b) ==
  \/ leg.strike \notin DOMAIN b
  \/ b[leg.strike].tag # "num"
  \/ b[leg.strike].val \notin option_chain[leg.chain]

\* Step 6: the premiums of the first n legs of branch s, read from the quotes
premiums(s, b, quote, n) ==
  LET L == Step6(s).legs IN
  [nm \in {L[i].name : i \in 1..n} |->
     LET i == CHOOSE j \in 1..n : L[j].name = nm IN
     Num(L[i].mult * quote[L[i].chain][b[L[i].strike].val])]

\* Step 6: the net debit, credit or cost of branch s
net_premium(s, e6) ==
  LET N == Step6(s).net IN
  [nm \in {N[i].name : i \in 1..Len(N)} |->
     LET i == CHOOSE j \in 1..Len(N) : N[j].name = nm IN
     Num(Sum(e6, N[i].plus) - Sum(e6, N[i].minus))]

Evaluate ==
  /\ pc = "step6"
  /\ LET L == Step6(strategy).legs
         ref == Step6(strategy).ref
         bad == {i \in 1..Len(L) : lookup_fails(L[i], ns)}
         n_ok == IF bad = {} THEN Len(L) ELSE SetMin(bad) - 1
         need(c) == {ns[L[i].strike].val : i \in {j \in 1..n_ok : L[j].chain = c}}
     IN
     \E cq \in [need("calls") -> Premiums], pq \in [need("puts") -> Premiums] :
     \E quote \in {[calls |-> cq, puts |-> pq]} :
     \E prem \in {premiums(strategy, ns, quote, n_ok)} :
       LET done == [i \in 1..n_ok |-> <<L[i].chain, ns[L[i].strike]>>] IN
       /\ lastPrice' = quote
       /\ IF bad # {}
          THEN LET i == SetMin(bad) IN
               IF ~Bound(L[i].strike)
               THEN Crash(prem, done, "NameError")
               ELSE Crash(prem, done \o << <<L[i].chain, ns[L[i].strike]>> >>,
                          "IndexError")
          ELSE \E e6 \in {[S_0 |-> S_0] @@ NumView(prem @@ ns)} :
               \E net \in {net_premium(strategy, e6)} :
               \E e \in {NumView(net) @@ e6} :
               \E sumK \in {Sum([i \in 1..Len(ref) |-> e[ref[i]]], 1..Len(ref))} :
               \E S_T \in {linspace(sumK, min_percentage, max_percentage)} :
               \E metrics \in {Step8(strategy, 0, 1, e)} :
               LET n == Len(ref)
                   q == linspace_den(n)
                   payoff == [i \in DOMAIN S_T |-> Step8(strategy, S_T[i], q, e).payoff]
                   computed == [S_T_min |-> Frac(sumK * min_percentage, n * 100),
                                S_T_max |-> Frac(sumK * max_percentage, n * 100),
                                S_T |-> Arr(S_T, q),
                                payoff |-> Arr(payoff, q)]
                                @@ metrics @@ net @@ prem
               IN
               \* Step 9: st.markdown(strategies_informations[strategy])
               IF strategy \in strategies_informations
               THEN /\ pc' = "step10"
                    /\ ns' = computed @@ ns
                    /\ lookups' = lookups \o done
                    /\ UNCHANGED <<inputs, offered, st_error, exception>>
               ELSE Crash(computed, done, "KeyError")

(* ------------- Black-Scholes valuation of the far leg ----------------- *)
\* Floats are kept to two decimals: a quantity x is the integer FP * x.
\* Prices come as S / q, strikes as integers, T in months (the code divides
\* the month count by 12), r and sigma in percent.
FP == 100
\* numpy's nan, what 0/0 and every operation on it give
nan == [tag |-> "nan", val |-> 0, den |-> 1]

\* FP * np.sqrt(T) for T = months / 12
np_sqrt(months) ==
  IF months = 0 THEN 0
  ELSE << 29, 41, 50, 58, 65, 71, 76, 82, 87, 91, 96, 100 >>[months]

\* FP * np.exp(-r * T), to first order in r * T
np_exp(r, months) == FP - (r * months * FP) \div 1200

\* FP * norm.cdf(d) for d finite or infinite: the standard normal
\* distribution tabulated in steps of 0.1, with cdf(-d) = 1 - cdf(d)
norm_cdf(d) ==
  IF d.tag = "inf" THEN (IF d.val > 0 THEN FP ELSE 0)
  ELSE LET a == IF d.val >= 0 THEN d.val ELSE 0 - d.val
           p == IF 10 * a >= 26 * FP THEN FP
                ELSE << 50, 54, 58, 62, 66, 69, 73, 76, 79, 82, 84, 86, 88,
                        90, 92, 93, 95, 96, 96, 97, 98, 98, 99, 99, 99, 99
                     >>[(10 * a) \div FP + 1]
       IN IF d.val >= 0 THEN p ELSE FP - p

\* def bs_call(S, K, T, r, sigma), the value of S / q as a fraction over
\* q * FP * FP.  np.log(S / K) is taken as 2(S - K)/(S + K).  A division by
\* sigma * np.sqrt(T) = 0 gives, as numpy divides, inf with the sign of the
\* numerator np.log(S / K) + r * T, which is the sign of S - K * exp(-r * T),
\* and nan where the numerator is 0
bs_call(S, q, K, T, r, sigma) ==
  LET np_log == (2 * FP * (S - q * K)) \div (S + q * K)
      v == (sigma * np_sqrt(T)) \div 100
      num == np_log + ((200 * r + sigma * sigma) * T * FP) \div 240000
      sign == 1200 * S - q * K * (1200 - r * T)
      d1 == IF v # 0 THEN Frac((num * FP) \div v, FP)
            ELSE IF sign > 0 THEN [tag |-> "inf", val |-> 1, den |-> 1]
            ELSE IF sign < 0 THEN [tag |-> "inf", val |-> -1, den |-> 1]
            ELSE nan
      d2 == IF d1.tag = "num" THEN Frac(d1.val - v, FP) ELSE d1
  IN IF d1.tag = "nan" THEN nan
     ELSE Frac(S * norm_cdf(d1) * FP - q * K * np_exp(r, T) * norm_cdf(d2),
               q * FP * FP)

\* bs_put with norm.cdf(d2) where the code has norm.cdf(-d2)
bs_put_cdf_d2(S, q, K, T, r, sigma) ==
  LET np_log == (2 * FP * (S - q * K)) \div (S + q * K)
      v == (sigma * np_sqrt(T)) \div 100
      num == np_log + ((200 * r + sigma * sigma) * T * FP) \div 240000
      sign == 1200 * S - q * K * (1200 - r * T)
      d1 == IF v # 0 THEN Frac((num * FP) \div v, FP)
            ELSE IF sign > 0 THEN [tag |-> "inf", val |-> 1, den |-> 1]
            ELSE IF sign < 0 THEN [tag |-> "inf", val |-> -1, den |-> 1]
            ELSE nan
      d2 == IF d1.tag = "num" THEN Frac(d1.val - v, FP) ELSE d1
      neg(d) == [d EXCEPT !.val = 0 - d.val]
  IN IF d1.tag = "nan" THEN nan
     ELSE Frac(q * K * np_exp(r, T) * norm_cdf(d2) - S * norm_cdf(neg(d1)) * FP,
               q * FP * FP)

\* def bs_put(S, K, T, r, sigma)
bs_put(S, q, K, T, r, sigma) ==
  LET np_log == (2 * FP * (S - q * K)) \div (S + q * K)
      v == (sigma * np_sqrt(T)) \div 100
      num == np_log + ((200 * r + sigma * sigma) * T * FP) \div 240000
      sign == 1200 * S - q * K * (1200 - r * T)
      d1 == IF v # 0 THEN Frac((num * FP) \div v, FP)
            ELSE IF sign > 0 THEN [tag |-> "inf", val |-> 1, den |-> 1]
            ELSE IF sign < 0 THEN [tag |-> "inf", val |-> -1, den |-> 1]
            ELSE nan
      d2 == IF d1.tag = "num" THEN Frac(d1.val - v, FP) ELSE d1
      neg(d) == [d EXCEPT !.val = 0 - d.val]
  IN IF d1.tag = "nan" THEN nan
     ELSE Frac(q * K * np_exp(r, T) * norm_cdf(neg(d2)) - S * norm_cdf(neg(d1)) * FP,
               q * FP * FP)

(* ---------------- calendar and diagonal spread branches --------------- *)
\* In these branches option_chain[d] is stock.option_chain(d) for each listed
\* expiration d, and stock.options lists DOMAIN option_chain in date order.

\* pd.to_datetime(date).to_period("M"): listed dates fall two to a month
month_of(date) == date \div 2

\* Step 3: the two expirations; the second list holds the dates after the
\* short one (calendars) or before the long one (diagonals)
SelectExpirations ==
  /\ pc = "step3" /\ strategy \in calendar_strategies
  /\ LET expiration_dates == sorted(DOMAIN option_chain)
         diagonal == strategy \in {"Diagonal Call Spread", "Diagonal Put Spread"}
         first == IF diagonal THEN "long_expiration" ELSE "short_expiration"
         second == IF diagonal THEN "short_expiration" ELSE "long_expiration"
     IN
     \* selectbox(..., index=len(expiration_dates) - 1) of the diagonals
     \E raises \in (IF diagonal THEN selectbox_raises(expiration_dates)
                    ELSE {FALSE}) :
       IF raises
       THEN ErrorStop(<<>>, <<>>)
       ELSE \E d1 \in selectbox(expiration_dates) :
            \E rest \in {sorted({d \in DOMAIN option_chain :
                                   IF diagonal THEN d < d1.val ELSE d > d1.val})} :
            \E d2 \in selectbox(rest) :
              /\ pc' = "step4"
              /\ ns' = (first :> d1) @@ (second :> d2)
              /\ offered' = (first :> expiration_dates) @@ (second :> rest)
              /\ UNCHANGED <<inputs, lookups, lastPrice, st_error, exception>>

\* Steps 4 to 8: fetch the two chains, select the strikes, r and sigma, look
\* the premiums up, sample S_T and value the far leg with bs_call or bs_put
Valuate ==
  /\ pc = "step4"
  /\ LET calls == strategy \in {"Calendar Call Spread", "Diagonal Call Spread"}
         calendar == strategy \in {"Calendar Call Spread", "Calendar Put Spread"}
         kind == IF calls THEN "calls" ELSE "puts"
         \* stock.option_chain(date): the chain of a listed date; for date
         \* None yfinance raises or answers with the chain of a listed date
         fetch(date) ==
           IF date = None
           THEN {[raises |-> TRUE, strike |-> {}]}
                \cup {[raises |-> FALSE, strike |-> option_chain[d][kind]] :
                        d \in DOMAIN option_chain}
           ELSE {[raises |-> FALSE, strike |-> option_chain[date.val][kind]]}
         frame(f) == [tag |-> "frame", val |-> f.strike, den |-> 1]
         short_premium == IF calls THEN "short_call_premium" ELSE "short_put_premium"
         long_premium == IF calls THEN "long_call_premium" ELSE "long_put_premium"
     IN
     \E short_options \in fetch(ns.short_expiration) :
     IF short_options.raises
     THEN /\ Crash(<<>>, <<>>, "ValueError")
          /\ lastPrice' = lastPrice
     ELSE
     \E long_options \in fetch(ns.long_expiration) :
     IF long_options.raises
     THEN /\ Crash([short_options |-> frame(short_options)], <<>>, "ValueError")
          /\ lastPrice' = lastPrice
     ELSE
     \E K \in (IF calendar
               THEN {<< k, k >> :
                       k \in selectbox(sorted(short_options.strike
                                              \cap long_options.strike))}
               ELSE selectbox(sorted(long_options.strike))
                    \X selectbox(sorted(short_options.strike))) :
     \E r \in {Num(5), Num(20)}, sigma \in {Num(0), Num(20)} :
     \E b4 \in {(IF calendar THEN [K |-> K[1]] ELSE [K_1 |-> K[1], K_2 |-> K[2]])
                @@ [r |-> r, sigma |-> sigma,
                    short_options |-> frame(short_options),
                    long_options |-> frame(long_options)]} :
     \E looked \in {IF calendar
                    THEN << <<"short_options", K[2]>>, <<"long_options", K[1]>> >>
                    ELSE << <<"long_options", K[1]>>, <<"short_options", K[2]>> >>} :
     IF K[1] = None \/ K[2] = None
     THEN /\ Crash(b4, << looked[1] >>, "IndexError")
          /\ lastPrice' = lastPrice
     ELSE
     \E sp \in Premiums, lp \in Premiums :
     \E b5 \in {(short_premium :> Num(sp)) @@ (long_premium :> Num(lp))
                @@ [net_premium |-> Num(lp - sp)] @@ b4} :
     /\ lastPrice' = [short_options |-> (K[2].val :> sp),
                      long_options |-> (K[1].val :> lp)]
     /\ \* pd.to_datetime(None).to_period("M")
        IF ns.short_expiration = None \/ ns.long_expiration = None
        THEN Crash(b5, looked, "AttributeError")
        ELSE
        \E T \in {month_of(ns.long_expiration.val)
                  - month_of(ns.short_expiration.val)} :
        \E n \in {IF calendar THEN 1 ELSE 2} :
        \E sumK \in {IF calendar THEN K[1].val ELSE K[1].val + K[2].val} :
        \E S_T \in {linspace(sumK, min_percentage, max_percentage)} :
        \E q \in {linspace_den(n)} :
        LET far(S) ==
              CASE strategy = "Calendar Call Spread" ->
                     bs_call(S, q, K[1].val, T, r.val, sigma.val)
                [] strategy = "Calendar Put Spread" ->
                     bs_put(S, q, K[1].val, T, 5, 20)
                [] strategy = "Diagonal Call Spread" ->
                     bs_call(S, q, K[1].val, T, r.val, sigma.val)
                [] strategy = "Diagonal Put Spread" ->
                     bs_put(S, q, K[1].val, T, r.val, sigma.val)
            near(S) == IF calls THEN Max(S - q * K[2].val, 0)
                       ELSE Max(q * K[2].val - S, 0)
            sample(S) ==
              LET long_payoff == far(S) IN
              IF long_payoff.tag = "nan" THEN nan
              ELSE Frac(long_payoff.val - FP * FP * near(S)
                        - q * FP * FP * (lp - sp), q * FP * FP)
        IN
        \E payoff \in {[i \in DOMAIN S_T |-> sample(S_T[i])]} :
        \E isnan \in {\E i \in DOMAIN payoff : payoff[i].tag = "nan"} :
        LET vals == {payoff[i].val : i \in DOMAIN payoff}
            computed ==
              [S_T_min |-> Frac(sumK * min_percentage, n * 100),
               S_T_max |-> Frac(sumK * max_percentage, n * 100),
               S_T |-> Arr(S_T, q),
               months_between_short_long |-> Frac(T, 12),
               payoff |-> Arr(payoff, q * FP * FP),
               max_profit |-> IF isnan THEN nan
                              ELSE Frac(SetMax(vals), q * FP * FP),
               max_loss |-> IF ~calendar THEN Num(lp - sp)
                            ELSE IF isnan THEN nan
                            ELSE Frac(0 - SetMin(vals), q * FP * FP)]
              @@ b5
        IN
        IF strategy \in strategies_informations
        THEN /\ pc' = "step10"
             /\ ns' = computed @@ ns
             /\ lookups' = lookups \o looked
             /\ UNCHANGED <<inputs, offered, st_error, exception>>
        ELSE Crash(computed, looked, "KeyError")

(* ---------------------- Step 10: plot payoff diagram ------------------ *)
plot_reads(s) ==
  {"S_T", "payoff", "max_profit", "max_loss"} \cup Range(plot_strikes(s))

Plot ==
  /\ pc = "step10"
  /\ IF \A n \in plot_reads(strategy) : Bound(n)
     THEN /\ pc' = "done"
          /\ UNCHANGED <<inputs, ns, offered, lookups, lastPrice, st_error, exception>>
     ELSE /\ pc' = "crashed"
          /\ exception' = "NameError"
          /\ UNCHANGED <<inputs, ns, offered, lookups, lastPrice, st_error>>


(* ------------------------- state functions ---------------------------- *)
\* the run has computed payoff, max_profit and max_loss
Evaluated == pc \in {"step10", "done"}
\* st.error was called and st.stop() ended the run
Stopped == pc = "stopped" /\ st_error
\* no premium was looked up and no payoff computed
NothingComputed == lookups = <<>> /\ ~Bound("payoff")
\* q * payoff(S_T / q) of the running strategy with the bindings e
payoff_at(S_T, q, e) == Step8(strategy, S_T, q, e).payoff
\* the bindings of branch s priced on the selected strikes and the quotes read
priced(s) ==
  LET prem == premiums(s, ns, lastPrice, Len(Step6(s).legs))
      e6 == [S_0 |-> S_0] @@ NumView(prem @@ ns)
  IN NumView(net_premium(s, e6)) @@ e6
\* every premium lookup made so far was of a strike its chain quotes
lookups_quoted ==
  \A i \in 1..Len(lookups) :
    /\ lookups[i][2].tag = "num"
    /\ lookups[i][2].val \in option_chain[lookups[i][1]]

\* the catalog's "net debit trade" and "net credit trade" entries
net_debit_trades ==
  {"Bull Call Spread", "Bear Put Spread", "Calendar Call Spread",
   "Calendar Put Spread", "Diagonal Call Spread", "Diagonal Put Spread",
   "Long Straddle", "Long Strangle", "Long Guts", "Strap", "Strip",
   "Call Ratio Backspread", "Put Ratio Backspread", "Long Call Butterfly",
   "Long Put Butterfly", "Short Iron Butterfly", "Long Call Condor",
   "Long Put Condor", "Short Iron Condor"}
net_credit_trades ==
  {"Bull Put Spread", "Bear Call Spread", "Short Straddle", "Short Strangle",
   "Short Guts", "Ratio Call Spread", "Ratio Put Spread", "Short Call Butterfly",
   "Short Put Butterfly", "Long Iron Butterfly", "Short Call Condor",
   "Short Put Condor", "Long Iron Condor"}
\* the net premium paid by the run: D and H are debits, C is a credit
net_debit(e) ==
  LET nm == Step6(strategy).net[1].name IN
  IF nm = "C" THEN 0 - e.C ELSE e[nm]

(* --------------------------- specifications --------------------------- *)
\* both chains quote the same strikes
MirrorChains == {c \in Chains : c.calls = c.puts}

InitVertical ==
  InitRun({"Bull Call Spread", "Bull Put Spread", "Bear Call Spread",
           "Bear Put Spread"}, MirrorChains, {1}, {DefaultMinPercentage},
          {DefaultMaxPercentage})
NextVertical ==
  \/ BullCallSpread_Select
  \/ BullPutSpread_Select
  \/ SelectBelow("Bear Call Spread", "calls")
  \/ SelectBelow("Bear Put Spread", "puts")
  \/ Evaluate
  \/ Plot
SpecVertical == InitVertical /\ [][NextVertical]_vars

Straddles == {"Long Straddle", "Short Straddle"}
InitStraddle ==
  InitRun(Straddles, Chains, {1}, {DefaultMinPercentage}, {DefaultMaxPercentage})
NextStraddle ==
  \/ SelectSameStrike("Long Straddle", "calls", "puts", TRUE)
  \/ SelectSameStrike("Short Straddle", "calls", "puts", TRUE)
  \/ Evaluate
  \/ Plot
SpecStraddle == InitStraddle /\ [][NextStraddle]_vars

SingleStrikeVolatility ==
  {"Long Straddle", "Short Straddle", "Strap", "Strip",
   "Long Call Synthetic Straddle", "Short Call Synthetic Straddle",
   "Long Put Synthetic Straddle", "Short Put Synthetic Straddle",
   "Covered Short Straddle"}
InitVolatility ==
  InitRun(SingleStrikeVolatility, MirrorChains, Spots, {DefaultMinPercentage},
          {DefaultMaxPercentage})
NextVolatility ==
  \/ SelectSameStrike("Long Straddle", "calls", "puts", TRUE)
  \/ SelectSameStrike("Short Straddle", "calls", "puts", TRUE)
  \/ SelectSameStrike("Covered Short Straddle", "calls", "puts", TRUE)
  \/ SelectSameStrike("Strap", "calls", "puts", TRUE)
  \/ SelectSameStrike("Strip", "calls", "puts", FALSE)
  \/ SelectOne("Long Call Synthetic Straddle", "calls")
  \/ SelectOne("Long Put Synthetic Straddle", "puts")
  \/ SelectOne("Short Call Synthetic Straddle", "calls")
  \/ SelectOne("Short Put Synthetic Straddle", "puts")
  \/ Evaluate
  \/ Plot
SpecVolatility == InitVolatility /\ [][NextVolatility]_vars

InitUnbounded ==
  InitRun({"Long Box", "Call Ratio Backspread", "Ratio Call Spread"}, Chains, {1}, {DefaultMinPercentage},
          {DefaultMaxPercentage})
NextUnbounded ==
  \/ LongBox_Select
  \/ SelectRatio("Call Ratio Backspread", "calls", TRUE)
  \/ SelectRatio("Ratio Call Spread", "calls", FALSE)
  \/ Evaluate
  \/ Plot
SpecUnbounded == InitUnbounded /\ [][NextUnbounded]_vars

InitButterfly ==
  InitRun({"Long Call Butterfly", "Modified Call Butterfly", "Long Put Butterfly",
           "Modified Put Butterfly", "Short Call Butterfly", "Short Put Butterfly",
           "Long Iron Butterfly", "Short Iron Butterfly"},
          MirrorChains, {1}, {DefaultMinPercentage},
          {DefaultMaxPercentage})
NextButterfly ==
  \/ LongCallButterfly_Select
  \/ ModifiedCallButterfly_Select
  \/ LongPutButterfly_Select
  \/ ModifiedPutButterfly_Select
  \/ ShortCallButterfly_Select
  \/ ShortPutButterfly_Select
  \/ SelectIronButterfly("Long Iron Butterfly")
  \/ SelectIronButterfly("Short Iron Butterfly")
  \/ Evaluate
  \/ Plot
SpecButterfly == InitButterfly /\ [][NextButterfly]_vars

\* the call and put condors read one chain, the iron condors both
InitCondor ==
  \/ InitRun(plot_K1_K2_K3_K4 \ {"Long Iron Condor", "Short Iron Condor"},
             MirrorChains, {1}, {DefaultMinPercentage}, {DefaultMaxPercentage})
  \/ InitRun({"Long Iron Condor", "Short Iron Condor"}, Chains, {1},
             {DefaultMinPercentage}, {DefaultMaxPercentage})
NextCondor ==
  \/ SelectCondor("Long Call Condor", "calls", "calls")
  \/ SelectCondor("Short Call Condor", "calls", "calls")
  \/ SelectCondor("Long Put Condor", "puts", "puts")
  \/ SelectCondor("Short Put Condor", "puts", "puts")
  \/ SelectCondor("Long Iron Condor", "puts", "calls")
  \/ SelectCondor("Short Iron Condor", "puts", "calls")
  \/ Evaluate
  \/ Plot
SpecCondor == InitCondor /\ [][NextCondor]_vars

NextRatio ==
  \/ SelectRatio("Call Ratio Backspread", "calls", TRUE)
  \/ SelectRatio("Put Ratio Backspread", "puts", TRUE)
  \/ SelectRatio("Ratio Call Spread", "calls", FALSE)
  \/ SelectRatio("Ratio Put Spread", "puts", FALSE)
  \/ Evaluate
  \/ Plot
SpecRatio ==
  /\ InitRun({"Call Ratio Backspread", "Put Ratio Backspread",
              "Ratio Call Spread", "Ratio Put Spread"}, MirrorChains, {1},
             {DefaultMinPercentage}, {DefaultMaxPercentage})
  /\ [][NextRatio]_vars

NextCovered ==
  \/ SelectOne("Covered Call", "calls")
  \/ SelectOne("Covered Put", "puts")
  \/ Evaluate
  \/ Plot
SpecCovered ==
  /\ InitRun({"Covered Call", "Covered Put"}, MirrorChains, Spots,
             {DefaultMinPercentage}, {DefaultMaxPercentage})
  /\ [][NextCovered]_vars

\* bs_call and bs_put applied to one spot, strike, time T > 0 in months, rate
\* and volatility sigma > 0 in percent
NextParity ==
  /\ pc = "bs"
  /\ pc' = "done"
  /\ \A e \in {NumView(ns)} :
       ns' = [bs_call |-> bs_call(e.S, 1, e.K, e.T, e.r, e.sigma),
              bs_put |-> bs_put(e.S, 1, e.K, e.T, e.r, e.sigma)] @@ ns
  /\ UNCHANGED <<inputs, offered, lookups, lastPrice, st_error, exception>>
SpecParity ==
  /\ pc = "bs" /\ strategy = "" /\ S_0 = 1 /\ option_chain = <<>>
  /\ min_percentage = DefaultMinPercentage
  /\ max_percentage = DefaultMaxPercentage
  /\ ns \in [S : {Num(n) : n \in Spots}, K : {Num(n) : n \in Strikes},
             T : {Num(n) : n \in 1..MaxDate}, r : {Num(0), Num(5), Num(20)},
             sigma : {Num(20), Num(40)}]
  /\ offered = <<>> /\ lookups = <<>> /\ lastPrice = <<>>
  /\ st_error = FALSE /\ exception = ""
  /\ [][NextParity]_vars

\* a ticker lists up to MaxDate expirations, each with a chain of strikes
\* among 1 and 3
NextCalendar ==
  \/ SelectExpirations
  \/ Valuate
  \/ Plot
SpecCalendar ==
  /\ pc = "step3" /\ strategy \in calendar_strategies /\ S_0 = 1
  /\ option_chain \in
       UNION {[D -> {c \in MirrorChains : c.calls \subseteq {1, 3}}] :
                D \in SUBSET (1..MaxDate)}
  /\ min_percentage = DefaultMinPercentage
  /\ max_percentage = DefaultMaxPercentage
  /\ ns = <<>> /\ offered = <<>> /\ lookups = <<>> /\ lastPrice = <<>>
  /\ st_error = FALSE /\ exception = ""
  /\ [][NextCalendar]_vars

\* strategies whose call and put share one strike, on chains quoting strikes
\* among 4, 5 and 6
NextSameStrike ==
  \/ SelectSameStrike("Long Straddle", "calls", "puts", TRUE)
  \/ SelectSameStrike("Short Straddle", "calls", "puts", TRUE)
  \/ SelectSameStrike("Covered Short Straddle", "calls", "puts", TRUE)
  \/ SelectSameStrike("Strap", "calls", "puts", TRUE)
  \/ SelectForward("Long Synthetic Forward", "calls", "puts")
  \/ SelectForward("Short Synthetic Forward", "puts", "calls")
  \/ Evaluate
  \/ Plot
SpecSameStrike ==
  /\ InitRun({"Long Straddle", "Short Straddle", "Covered Short Straddle",
              "Strap", "Long Synthetic Forward", "Short Synthetic Forward"},
             {c \in [calls : SUBSET {4, 5, 6}, puts : SUBSET {4, 5, 6}] :
                c.calls # {} /\ c.puts # {}},
             {5, 10}, {DefaultMinPercentage}, {DefaultMaxPercentage})
  /\ [][NextSameStrike]_vars

\* strategies that draw a strike from each chain, on strikes below MaxStrike
NextAcross ==
  \/ SelectSameStrike("Strip", "calls", "puts", FALSE)
  \/ SelectAcross("Collar", "puts", "calls", "calls", TRUE, TRUE, FALSE)
  \/ SelectAcross("Long Combo", "calls", "puts", "calls", FALSE, TRUE, TRUE)
  \/ SelectAcross("Short Combo", "puts", "calls", "puts", TRUE, TRUE, TRUE)
  \/ SelectAcross("Covered Short Strangle", "calls", "puts", "puts", FALSE,
                  FALSE, TRUE)
  \/ Evaluate
  \/ Plot
SpecAcross ==
  /\ InitRun({"Strip", "Collar", "Long Combo", "Short Combo",
              "Covered Short Strangle"},
             {c \in Chains : c.calls \cup c.puts \subseteq 1..(MaxStrike - 1)},
             {1}, {DefaultMinPercentage}, {DefaultMaxPercentage})
  /\ [][NextAcross]_vars

NextLadder ==
  \/ SelectLadder("Bull Call Ladder", "calls", TRUE)
  \/ SelectLadder("Bear Call Ladder", "calls", TRUE)
  \/ SelectLadder("Bull Put Ladder", "puts", FALSE)
  \/ SelectLadder("Bear Put Ladder", "puts", FALSE)
  \/ Evaluate
  \/ Plot
SpecLadder ==
  /\ InitRun({"Bull Call Ladder", "Bear Call Ladder", "Bull Put Ladder",
              "Bear Put Ladder"}, MirrorChains, {1}, {DefaultMinPercentage},
             {DefaultMaxPercentage})
  /\ [][NextLadder]_vars

NextStrangle ==
  \/ SelectTwoFree("Long Strangle", "calls", "puts")
  \/ SelectTwoFree("Short Strangle", "calls", "puts")
  \/ SelectTwoFree("Long Guts", "calls", "puts")
  \/ SelectTwoFree("Short Guts", "calls", "puts")
  \/ Evaluate
  \/ Plot
SpecStrangle ==
  /\ InitRun({"Long Strangle", "Short Strangle", "Long Guts", "Short Guts"},
             MirrorChains, {1}, {DefaultMinPercentage}, {DefaultMaxPercentage})
  /\ [][NextStrangle]_vars

NextSeagull ==
  \/ SelectSeagull("Bullish Short Seagull Spread", "puts", "calls", "calls")
  \/ SelectSeagull("Bullish Long Seagull Spread", "puts", "puts", "calls")
  \/ SelectSeagull("Bearish Long Seagull Spread", "puts", "calls", "calls")
  \/ SelectSeagull("Bearish Short Seagull Spread", "puts", "puts", "calls")
  \/ Evaluate
  \/ Plot
SpecSeagull ==
  /\ InitRun({"Bullish Short Seagull Spread", "Bullish Long Seagull Spread",
              "Bearish Long Seagull Spread", "Bearish Short Seagull Spread"},
             MirrorChains, {1}, {DefaultMinPercentage}, {DefaultMaxPercentage})
  /\ [][NextSeagull]_vars

\* one strategy for each form of the reference strike of Step 7, under the
\* ends and the default of both sliders; the calls quote 2 and 4 or 1 to 4,
\* the puts the lowest and the highest of these
NextRange ==
  \/ SelectOne("Covered Call", "calls")
  \/ SelectRatio("Ratio Call Spread", "calls", FALSE)
  \/ SelectLadder("Bull Call Ladder", "calls", TRUE)
  \/ SelectCondor("Long Call Condor", "calls", "calls")
  \/ LongBox_Select
  \/ Evaluate
  \/ Plot
SpecRange ==
  /\ \/ InitRun({"Covered Call", "Bull Call Ladder", "Long Call Condor",
                  "Long Box"},
                 {c \in Chains : /\ c.calls \in {{2, 4}, {1, 2, 3, 4}}
                                  /\ c.puts = {SetMin(c.calls), SetMax(c.calls)}},
                 {1}, {0, DefaultMinPercentage, 100},
                 {100, DefaultMaxPercentage, 200})
     \/ InitRun({"Ratio Call Spread"}, {[calls |-> {2, 4}, puts |-> {2, 4}]},
                 {1}, {0, DefaultMinPercentage, 100},
                 {100, DefaultMaxPercentage, 200})
  /\ [][NextRange]_vars

\* a run of any strategy the menus yield: the condors and the Modified Put
\* Butterfly on a chain quoting 1 to 4, the synthetic forwards on 4 to 6
\* around the price 5, the calendar and diagonal spreads on two expirations
\* quoting 1 and 3, the others on 1 to 3
NextMenu ==
  \/ SelectOne("Covered Call", "calls")
  \/ SelectOne("Covered Put", "puts")
  \/ SelectProtective("Protective Put", "puts", TRUE)
  \/ SelectProtective("Protective Call", "calls", FALSE)
  \/ BullCallSpread_Select
  \/ BullPutSpread_Select
  \/ SelectBelow("Bear Call Spread", "calls")
  \/ SelectBelow("Bear Put Spread", "puts")
  \/ SelectForward("Long Synthetic Forward", "calls", "puts")
  \/ SelectForward("Short Synthetic Forward", "puts", "calls")
  \/ SelectAcross("Long Combo", "calls", "puts", "calls", FALSE, TRUE, TRUE)
  \/ SelectAcross("Short Combo", "puts", "calls", "puts", TRUE, TRUE, TRUE)
  \/ SelectLadder("Bull Call Ladder", "calls", TRUE)
  \/ SelectLadder("Bear Call Ladder", "calls", TRUE)
  \/ SelectLadder("Bull Put Ladder", "puts", FALSE)
  \/ SelectLadder("Bear Put Ladder", "puts", FALSE)
  \/ SelectSameStrike("Long Straddle", "calls", "puts", TRUE)
  \/ SelectSameStrike("Short Straddle", "calls", "puts", TRUE)
  \/ SelectTwoFree("Long Strangle", "calls", "puts")
  \/ SelectTwoFree("Short Strangle", "calls", "puts")
  \/ SelectTwoFree("Long Guts", "calls", "puts")
  \/ SelectTwoFree("Short Guts", "calls", "puts")
  \/ SelectOne("Long Call Synthetic Straddle", "calls")
  \/ SelectOne("Long Put Synthetic Straddle", "puts")
  \/ SelectOne("Short Call Synthetic Straddle", "calls")
  \/ SelectOne("Short Put Synthetic Straddle", "puts")
  \/ SelectSameStrike("Covered Short Straddle", "calls", "puts", TRUE)
  \/ SelectAcross("Covered Short Strangle", "calls", "puts", "puts", FALSE,
                  FALSE, TRUE)
  \/ SelectSameStrike("Strap", "calls", "puts", TRUE)
  \/ SelectSameStrike("Strip", "calls", "puts", FALSE)
  \/ SelectRatio("Call Ratio Backspread", "calls", TRUE)
  \/ SelectRatio("Put Ratio Backspread", "puts", TRUE)
  \/ SelectRatio("Ratio Call Spread", "calls", FALSE)
  \/ SelectRatio("Ratio Put Spread", "puts", FALSE)
  \/ LongCallButterfly_Select
  \/ ModifiedCallButterfly_Select
  \/ LongPutButterfly_Select
  \/ ModifiedPutButterfly_Select
  \/ ShortCallButterfly_Select
  \/ ShortPutButterfly_Select
  \/ SelectIronButterfly("Long Iron Butterfly")
  \/ SelectIronButterfly("Short Iron Butterfly")
  \/ SelectCondor("Long Call Condor", "calls", "calls")
  \/ SelectCondor("Short Call Condor", "calls", "calls")
  \/ SelectCondor("Long Put Condor", "puts", "puts")
  \/ SelectCondor("Short Put Condor", "puts", "puts")
  \/ SelectCondor("Long Iron Condor", "puts", "calls")
  \/ SelectCondor("Short Iron Condor", "puts", "calls")
  \/ LongBox_Select
  \/ SelectAcross("Collar", "puts", "calls", "calls", TRUE, TRUE, FALSE)
  \/ SelectSeagull("Bullish Short Seagull Spread", "puts", "calls", "calls")
  \/ SelectSeagull("Bullish Long Seagull Spread", "puts", "puts", "calls")
  \/ SelectSeagull("Bearish Long Seagull Spread", "puts", "calls", "calls")
  \/ SelectSeagull("Bearish Short Seagull Spread", "puts", "puts", "calls")
  \/ Evaluate
  \/ SelectExpirations
  \/ Valuate
  \/ Plot
SpecMenu ==
  /\ strategy \in menu_strategies
  /\ \/ /\ strategy \in plot_K1_K2_K3_K4 \cup {"Modified Put Butterfly"}
        /\ InitRun(menu_strategies,
                   {[calls |-> {1, 2, 3, 4}, puts |-> {1, 2, 3, 4}]}, {1},
                   {DefaultMinPercentage}, {DefaultMaxPercentage})
     \/ /\ strategy \in {"Long Synthetic Forward", "Short Synthetic Forward"}
        /\ InitRun(menu_strategies,
                   {[calls |-> {4, 5, 6}, puts |-> {4, 5, 6}]}, {5},
                   {DefaultMinPercentage}, {DefaultMaxPercentage})
     \/ /\ strategy \notin plot_K1_K2_K3_K4 \cup calendar_strategies
                           \cup {"Modified Put Butterfly",
                                 "Long Synthetic Forward",
                                 "Short Synthetic Forward"}
        /\ InitRun(menu_strategies,
                   {[calls |-> {1, 2, 3}, puts |-> {1, 2, 3}]}, {2},
                   {DefaultMinPercentage}, {DefaultMaxPercentage})
     \/ /\ strategy \in calendar_strategies
        /\ pc = "step3" /\ S_0 = 1
        /\ option_chain = [d \in {1, 3} |-> [calls |-> {1, 3}, puts |-> {1, 3}]]
        /\ min_percentage = DefaultMinPercentage
        /\ max_percentage = DefaultMaxPercentage
        /\ ns = <<>> /\ offered = <<>> /\ lookups = <<>> /\ lastPrice = <<>>
        /\ st_error = FALSE /\ exception = ""
  /\ [][NextMenu]_vars

(* ------------------------------ claims -------------------------------- *)
\* C1: in the Bull Call Spread branch, with quoted call strikes K1 < K2 and
\* net debit D = D1 - C1, max_profit = K2 - K1 - D and max_loss = D, and for
\* every S_T >= 0 the payoff max(S_T-K1,0) - max(S_T-K2,0) - D lies in
\* [-max_loss, max_profit], equals max_profit for S_T >= K2 and -max_loss
\* for S_T <= K1.
C1_BullCallSpreadPayoff ==
  (strategy = "Bull Call Spread" /\ Evaluated) =>
    \A e \in {env} :
    /\ e.K_1 < e.K_2
    /\ e.K_1 \in option_chain.calls /\ e.K_2 \in option_chain.calls
    /\ e.D_1 = lastPrice.calls[e.K_1] /\ e.C_1 = lastPrice.calls[e.K_2]
    /\ e.D = e.D_1 - e.C_1
    /\ e.max_profit = e.K_2 - e.K_1 - e.D
    /\ e.max_loss = e.D
    /\ \A s \in Prices :
         /\ payoff_at(s, 1, e) = Max(s - e.K_1, 0) - Max(s - e.K_2, 0) - e.D
         /\ payoff_at(s, 1, e) >= 0 - e.max_loss
         /\ payoff_at(s, 1, e) <= e.max_profit
         /\ s >= e.K_2 => payoff_at(s, 1, e) = e.max_profit
         /\ s <= e.K_1 => payoff_at(s, 1, e) = 0 - e.max_loss

C1_Witness ==
  /\ strategy = "Bull Call Spread" /\ pc = "done"
  /\ env.K_1 = 1 /\ env.K_2 = 3 /\ env.D_1 = 2 /\ env.C_1 = 1
  /\ env.max_profit = 1 /\ env.max_loss = 1

\* C2: in the Long Straddle branch, with K quoted in both chains, call
\* premium D1, put premium D2 and D = D1 + D2: max_profit is reported
\* unbounded, max_loss = D is the negated minimum of the payoff over all S_T,
\* attained at S_T = K, and the breakevens S_down = K - D and S_up = K + D
\* both give payoff 0.
C2_LongStraddleMetrics ==
  (strategy = "Long Straddle" /\ Evaluated) =>
    \A e \in {env} :
    /\ e.K \in option_chain.calls /\ e.K \in option_chain.puts
    /\ e.D_1 = lastPrice.calls[e.K] /\ e.D_2 = lastPrice.puts[e.K]
    /\ e.D = e.D_1 + e.D_2
    /\ ns.max_profit = inf
    /\ e.max_loss = e.D
    /\ \A s \in Prices : payoff_at(s, 1, e) >= 0 - e.max_loss
    /\ payoff_at(e.K, 1, e) = 0 - e.max_loss
    /\ e.S_down = e.K - e.D /\ e.S_up = e.K + e.D
    /\ payoff_at(e.S_down, 1, e) = 0
    /\ payoff_at(e.S_up, 1, e) = 0

C2_Witness ==
  /\ strategy = "Long Straddle" /\ pc = "done"
  /\ env.K = 4 /\ env.D_1 = 1 /\ env.D_2 = 2
  /\ env.max_loss = 3 /\ env.S_down = 1 /\ env.S_up = 7

\* C3: a Long Straddle and a Short Straddle built from the same strike and the
\* same call and put premiums have opposite payoffs at every S_T; the long's
\* max_loss equals the short's max_profit, and the long's max_profit and the
\* short's max_loss are both unbounded.
C3_StraddleSymmetry ==
  (strategy \in Straddles /\ Evaluated) =>
    \A long \in {priced("Long Straddle")}, short \in {priced("Short Straddle")} :
    \A lm \in {Step8("Long Straddle", 0, 1, long)} :
    \A sm \in {Step8("Short Straddle", 0, 1, short)} :
    /\ \A s \in Prices :
         Step8("Long Straddle", s, 1, long).payoff
           = 0 - Step8("Short Straddle", s, 1, short).payoff
    /\ lm.max_loss = sm.max_profit
    /\ lm.max_profit = inf /\ sm.max_loss = inf
    /\ strategy = "Long Straddle" =>
         ns.max_loss = sm.max_profit /\ ns.max_profit = sm.max_loss
    /\ strategy = "Short Straddle" =>
         ns.max_profit = lm.max_loss /\ ns.max_loss = lm.max_profit

C3_Witness ==
  /\ strategy = "Short Straddle" /\ pc = "done"
  /\ env.K = 2 /\ lastPrice.calls[2] = 1 /\ lastPrice.puts[2] = 2
  /\ env.max_profit = 3
  /\ Step8("Long Straddle", 0, 1, priced("Long Straddle")).max_loss = Num(3)

\* C4: for every strike combination the selection admits and whatever
\* premiums the chain quotes, a strategy the catalog labels a net debit trade
\* has a strictly positive net debit and one labelled a net credit trade a
\* strictly positive net credit.
C4_NetPremiumSign ==
  Evaluated =>
    \A e \in {env} :
    /\ strategy \in net_debit_trades => net_debit(e) > 0
    /\ strategy \in net_credit_trades => net_debit(e) < 0

\* C5: max_profit is reported infinite exactly when the payoff grows without
\* bound as S_T grows (net long calls plus long stock exceed the short ones),
\* and max_loss is reported infinite exactly when it falls without bound.
C5_UnboundedIffPayoffUnbounded ==
  Evaluated =>
    \A e \in {env} :
    \A top \in {SetMax(Prices)} :
    \A slope \in {payoff_at(top + 1, 1, e) - payoff_at(top, 1, e)} :
    /\ ns.max_profit = inf <=> slope > 0
    /\ ns.max_loss = inf <=> slope < 0

\* C6: in Bull Call Spread and Bull Put Spread the K2 offered are exactly the
\* chain strikes above the chosen K1, ascending; when there is none, an error
\* is reported and the run stops without a premium lookup or a payoff.
C6_NoHigherStrikeStops ==
  (strategy \in {"Bull Call Spread", "Bull Put Spread"} /\ pc # "step5") =>
    \A chain \in {IF strategy = "Bull Call Spread" THEN option_chain.calls
                  ELSE option_chain.puts} :
    /\ offered.K_2 = sorted({p \in chain : p > ns.K_1.val})
    /\ offered.K_2 = <<>> => Stopped /\ NothingComputed

\* C7: in the six condors premiums are looked up and the payoff computed only
\* for K1 < K2 < K3 < K4 with equal gaps, each strike quoted in the chain of
\* its own leg; when K2 + kappa or K3 + kappa is not quoted, an error is shown
\* and the run stops.
C7_CondorStrikes ==
  (strategy \in plot_K1_K2_K3_K4 /\ pc # "step5") =>
    \A L \in {Step6(strategy).legs} :
    /\ (lookups # <<>> \/ Bound("payoff")) =>
         /\ \A i \in 1..Len(L) : ~lookup_fails(L[i], ns)
         /\ ns.K_1.val < ns.K_2.val /\ ns.K_2.val < ns.K_3.val
         /\ ns.K_3.val < ns.K_4.val
         /\ ns.K_2.val - ns.K_1.val = ns.K_3.val - ns.K_2.val
         /\ ns.K_3.val - ns.K_2.val = ns.K_4.val - ns.K_3.val
         /\ lookups_quoted
    /\ Bound("K_2") =>
         \A kappa \in {ns.K_2.val - ns.K_1.val} :
         \A high \in {option_chain[L[3].chain]} :
           (ns.K_2.val + kappa \notin high \/ ns.K_2.val + 2 * kappa \notin high)
             => Stopped /\ NothingComputed

C7_Witness ==
  /\ strategy = "Long Iron Condor" /\ pc = "done"
  /\ option_chain.puts = {1, 2} /\ option_chain.calls = {3, 4}
  /\ env.K_1 = 1 /\ env.K_2 = 2 /\ env.K_3 = 3 /\ env.K_4 = 4
  /\ Len(lookups) = 4

\* C8: in the four equidistant butterflies every strike whose premium is
\* looked up, the implied K3 included, is quoted in the chain; when the
\* implied K3 is not quoted, an error is shown and the run stops before any
\* premium lookup.
C8_ButterflyStrikesQuoted ==
  (strategy \in {"Long Call Butterfly", "Long Put Butterfly",
                 "Short Call Butterfly", "Short Put Butterfly"}
   /\ pc # "step5") =>
    /\ lookups_quoted
    /\ \A chain \in {option_chain[Step6(strategy).legs[1].chain]} :
         2 * ns.K_2.val - ns.K_1.val \notin chain => Stopped /\ NothingComputed

\* C9: Modified Call Butterfly offers only K3 < K2 with K2 - K3 > K1 - K2,
\* Modified Put Butterfly only K3 > K2 with K3 - K2 < K2 - K1, so never an
\* equidistant triple; when no quoted strike satisfies the inequality an error
\* is shown and the run stops without computing a payoff.
C9_ModifiedButterflyStrikes ==
  (strategy \in {"Modified Call Butterfly", "Modified Put Butterfly"}
   /\ pc # "step5") =>
    \A k1 \in {ns.K_1.val}, k2 \in {ns.K_2.val} :
    \A admissible \in
         {IF strategy = "Modified Call Butterfly"
          THEN {p \in option_chain.calls : p < k2 /\ k2 - p > k1 - k2}
          ELSE {p \in option_chain.puts : p > k2 /\ p - k2 < k2 - k1}} :
    /\ "K_3" \in DOMAIN offered =>
         /\ Range(offered.K_3) \subseteq admissible
         /\ \A p \in Range(offered.K_3) : p - k2 # k2 - k1
    /\ admissible = {} => Stopped /\ ~Bound("payoff") /\ exception = ""

\* C10: for the single-strike volatility strategies, for every selectable
\* strike, spot and premiums, the payoff at each breakeven the branch
\* computes (S_down, S_up) is 0.
C10_BreakevenPayoffZero ==
  (strategy \in SingleStrikeVolatility /\ Evaluated) =>
    \A e \in {env} :
    \A b \in {"S_down", "S_up"} \cap DOMAIN ns :
      payoff_at(ns[b].val, ns[b].den, e) = 0

\* C11: for the four ratio strategies, for every selectable K1, K2, N_S, N_L
\* and premiums, each breakeven the branch computes (S_down, S_up, with
\* H = D - C) is a price and the payoff evaluated there is 0.
C11_RatioBreakevenPayoffZero ==
  (strategy \in {"Call Ratio Backspread", "Put Ratio Backspread",
                 "Ratio Call Spread", "Ratio Put Spread"}
   /\ Evaluated) =>
    \A e \in {env} :
    \A b \in {"S_down", "S_up"} :
      /\ ns[b].den # 0
      /\ \A sg \in {IF ns[b].den < 0 THEN -1 ELSE 1} :
           payoff_at(sg * ns[b].val, sg * ns[b].den, e) = 0

\* C12: for the butterflies and condors that compute breakevens, for every
\* strike selection that reaches evaluation (either order of K1 and K2 where
\* the selection permits both), the payoff at S_down and at S_up is 0 and
\* S_down <= S_up.
C12_ButterflyBreakevens ==
  (strategy \in {"Long Call Butterfly", "Long Put Butterfly",
                 "Short Call Butterfly", "Short Put Butterfly",
                 "Long Iron Butterfly", "Short Iron Butterfly"}
                \cup plot_K1_K2_K3_K4
   /\ Evaluated) =>
    \A e \in {env} :
    /\ payoff_at(e.S_down, 1, e) = 0
    /\ payoff_at(e.S_up, 1, e) = 0
    /\ e.S_down <= e.S_up

\* C13: in Covered Call, for every quoted call strike K, premium C and spot
\* S_0: payoff(S_T) = K - S_0 + C = max_profit for every S_T >= K,
\* payoff(S_T) <= max_profit for every S_T, and payoff(0) = -max_loss with
\* max_loss = S_0 - C.
C13_CoveredCallMetrics ==
  (strategy = "Covered Call" /\ Evaluated) =>
    \A e \in {env} :
    /\ e.K \in option_chain.calls
    /\ e.C = lastPrice.calls[e.K]
    /\ e.max_profit = e.K - e.S_0 + e.C
    /\ e.max_loss = e.S_0 - e.C
    /\ \A s \in Prices :
         /\ s >= e.K => payoff_at(s, 1, e) = e.max_profit
         /\ payoff_at(s, 1, e) <= e.max_profit
    /\ payoff_at(0, 1, e) = 0 - e.max_loss

C13_Witness ==
  /\ strategy = "Covered Call" /\ pc = "done"
  /\ S_0 = 3 /\ env.K = 2 /\ env.C = 2
  /\ env.max_profit = 1 /\ env.max_loss = 1
  /\ payoff_at(4, 1, env) = 1 /\ payoff_at(0, 1, env) = -1

C14_ExpirationOrder ==
  (strategy \in calendar_strategies /\ pc # "step3") =>
    /\ Bound("payoff") =>
         /\ ns.short_expiration # None /\ ns.long_expiration # None
         /\ ns.long_expiration.val > ns.short_expiration.val
    /\ (~Bound("long_expiration") \/ ns.long_expiration = None
        \/ ns.short_expiration = None) =>
         /\ Stopped /\ NothingComputed
         /\ ~Bound("short_options") /\ ~Bound("long_options")

\* C15: the Black-Scholes valuation never divides by zero: in every calendar
\* or diagonal run, for every admissible expiration pair (two expirations in
\* one calendar month give T = 0) and every volatility accepted (sigma = 0
\* included), the divisor sigma * sqrt(T) of d1 is not 0 where it is divided
\* by, and the far leg of a degenerate run is valued at intrinsic value,
\* max(S_T-K,0) for a call and max(K-S_T,0) for a put, at every sample.
C15_NoDivisionByZero ==
  (strategy \in calendar_strategies /\ Evaluated) =>
    \A T \in {ns.months_between_short_long.val} :
    \A sigma \in {IF strategy = "Calendar Put Spread" THEN 20 ELSE ns.sigma.val} :
    \A K \in {IF Bound("K") THEN ns.K.val ELSE ns.K_1.val} :
    \A K_near \in {IF Bound("K") THEN ns.K.val ELSE ns.K_2.val} :
    \A calls \in {strategy \in {"Calendar Call Spread", "Diagonal Call Spread"}} :
    \A q \in {ns.S_T.den} :
    /\ (sigma * np_sqrt(T)) \div 100 # 0
    /\ (T = 0 \/ sigma = 0) =>
         \A i \in DOMAIN ns.S_T.val :
           \A S \in {ns.S_T.val[i]} :
             /\ ns.payoff.val[i].tag = "num"
             /\ ns.payoff.val[i].val =
                  FP * FP * ((IF calls THEN Max(S - q * K, 0) ELSE Max(q * K - S, 0))
                             - (IF calls THEN Max(S - q * K_near, 0)
                                ELSE Max(q * K_near - S, 0))
                             - q * ns.net_premium.val)

\* C16: for each of the four calendar and diagonal strategies the reported
\* max_profit is the maximum of the sampled payoff array and the reported
\* max_loss the negated minimum, so that every sampled payoff lies in
\* [-max_loss, max_profit].
C16_SampledExtremes ==
  (strategy \in calendar_strategies /\ Evaluated) =>
    \A payoff \in {ns.payoff.val} :
    \A Q \in {ns.payoff.den} :
    /\ ns.max_profit.tag = "num" /\ ns.max_loss.tag = "num"
    /\ \A i \in DOMAIN payoff : payoff[i].tag = "num"
    /\ \A hi \in {ns.max_profit.val * (Q \div ns.max_profit.den)} :
       \A lo \in {0 - ns.max_loss.val * (Q \div ns.max_loss.den)} :
         /\ \E i \in DOMAIN payoff : payoff[i].val = hi
         /\ \E i \in DOMAIN payoff : payoff[i].val = lo
         /\ \A i \in DOMAIN payoff : lo <= payoff[i].val /\ payoff[i].val <= hi

\* C17: for the strategies whose call and put legs share one strike (Long and
\* Short Straddle, Covered Short Straddle, Strap, Long and Short Synthetic
\* Forward) premiums are looked up and the payoff computed only for a strike
\* K quoted in both chains; when the strike chosen on the first chain is not
\* quoted on the paired chain (for the synthetic forwards: when no strike of
\* the ATM band around S_0 is quoted on both) an error is reported and the
\* run stops.
C17_SharedStrikeQuoted ==
  (strategy \in {"Long Straddle", "Short Straddle", "Covered Short Straddle",
                 "Strap", "Long Synthetic Forward", "Short Synthetic Forward"}
   /\ pc # "step5") =>
    /\ (lookups # <<>> \/ Bound("payoff")) =>
         /\ Bound("K") /\ ns.K # None
         /\ ns.K.val \in option_chain.calls \cap option_chain.puts
         /\ lookups_quoted
    /\ (Bound("K_1") /\ ns.K_1 # None
        /\ ns.K_1.val \notin option_chain.calls \cap option_chain.puts) =>
         Stopped /\ NothingComputed
    /\ (strategy \in {"Long Synthetic Forward", "Short Synthetic Forward"}
        /\ {price \in option_chain.calls \cap option_chain.puts :
              round0(9 * S_0) < price /\ price < round0(11 * S_0)} = {}) =>
         Stopped /\ NothingComputed

\* C19: in Strip, when the chosen call strike is not quoted in the put chain,
\* and in Collar, when no call strike is greater than the chosen put strike
\* K1, the run reports the error and stops there: no premium lookup, payoff
\* computation, display or plot executes afterwards with an undefined K or K2.
C19_ErrorStopsRun ==
  (strategy \in {"Strip", "Collar"} /\ pc # "step5") =>
    \A unmatched \in
         {IF strategy = "Strip" THEN ns.K_1.val \notin option_chain.puts
          ELSE \A price \in option_chain.calls : price <= ns.K_1.val} :
      unmatched => /\ st_error /\ Stopped
                   /\ NothingComputed
                   /\ exception = ""

\* C20: in Long Combo, Short Combo and Covered Short Strangle every K2
\* offered satisfies the stated ordering against K1 (K2 < K1 for Long Combo
\* and Covered Short Strangle, K2 > K1 for Short Combo), and the run proceeds
\* to premium lookup only if the chain K2 is drawn from contains such a
\* strike; otherwise an error is shown and the run stops.
C20_SecondStrikeOrdered ==
  (strategy \in {"Long Combo", "Short Combo", "Covered Short Strangle"}
   /\ pc # "step5") =>
    \A k1 \in {ns.K_1.val} :
    \A ordered \in
         {IF strategy = "Short Combo"
          THEN {price \in option_chain.calls : price > k1}
          ELSE {price \in option_chain.puts : price < k1}} :
    /\ "K_2" \in DOMAIN offered => Range(offered.K_2) \subseteq ordered
    /\ lookups # <<>> => ordered # {}
    /\ ordered = {} => Stopped /\ NothingComputed

\* C21: in the four ladders the strikes that reach evaluation are strictly
\* monotone (call ladders K1 < K2 < K3, put ladders K1 > K2 > K3), the K2 and
\* K3 offered are exactly the chain strikes beyond the strike chosen before,
\* and when there is none an error is shown and the run stops before any
\* premium lookup.
C21_LadderStrikesMonotone ==
  (strategy \in {"Bull Call Ladder", "Bear Call Ladder", "Bull Put Ladder",
                 "Bear Put Ladder"}
   /\ pc # "step5") =>
    \A above \in {strategy \in {"Bull Call Ladder", "Bear Call Ladder"}} :
    \A chain \in {option_chain[Step6(strategy).legs[1].chain]} :
    \A beyond \in {[k \in chain |->
                      sorted({p \in chain : IF above THEN p > k ELSE p < k})]} :
    /\ offered.K_1 = sorted(chain)
    /\ "K_2" \in DOMAIN offered => offered.K_2 = beyond[ns.K_1.val]
    /\ "K_3" \in DOMAIN offered => offered.K_3 = beyond[ns.K_2.val]
    /\ (lookups # <<>> \/ Bound("payoff")) =>
         /\ IF above
            THEN ns.K_1.val < ns.K_2.val /\ ns.K_2.val < ns.K_3.val
            ELSE ns.K_1.val > ns.K_2.val /\ ns.K_2.val > ns.K_3.val
         /\ lookups_quoted
    /\ (beyond[ns.K_1.val] = <<>>
        \/ (Bound("K_2") /\ beyond[ns.K_2.val] = <<>>))
         => Stopped /\ NothingComputed

C21_Witness ==
  /\ strategy = "Bull Put Ladder" /\ pc = "done"
  /\ option_chain.puts = {1, 2, 3, 4}
  /\ env.K_1 = 4 /\ env.K_2 = 2 /\ env.K_3 = 1
  /\ offered.K_2 = <<1, 2, 3>> /\ offered.K_3 = <<1>>
  /\ Len(lookups) = 3

\* C22: for Bull Put Spread (K1 < K2), Bear Call Spread (K2 < K1) and Bear Put
\* Spread (K2 < K1), for every admissible strike pair and all premiums, the
\* reported max_profit is the maximum of the payoff over all S_T >= 0 and the
\* reported max_loss the negated minimum: (C, K2-K1-C), (C, K1-K2-C) and
\* (K1-K2-D, D) respectively, C and D being the net credit and the net debit.
C22_VerticalSpreadExtremes ==
  (strategy \in {"Bull Put Spread", "Bear Call Spread", "Bear Put Spread"}
   /\ Evaluated) =>
    \A e \in {env} :
    \A values \in {{payoff_at(s, 1, e) : s \in Prices}} :
    /\ e.max_profit = SetMax(values)
    /\ e.max_loss = 0 - SetMin(values)
    /\ strategy = "Bull Put Spread" =>
         /\ e.K_1 < e.K_2 /\ e.C = e.C_1 - e.D_1
         /\ e.max_profit = e.C /\ e.max_loss = e.K_2 - e.K_1 - e.C
    /\ strategy = "Bear Call Spread" =>
         /\ e.K_2 < e.K_1 /\ e.C = e.C_1 - e.D_1
         /\ e.max_profit = e.C /\ e.max_loss = e.K_1 - e.K_2 - e.C
    /\ strategy = "Bear Put Spread" =>
         /\ e.K_2 < e.K_1 /\ e.D = e.D_1 - e.C_1
         /\ e.max_profit = e.K_1 - e.K_2 - e.D /\ e.max_loss = e.D

C22_Witness ==
  /\ strategy = "Bear Call Spread" /\ pc = "done"
  /\ env.K_1 = 4 /\ env.K_2 = 1 /\ env.D_1 = 0 /\ env.C_1 = 2
  /\ env.max_profit = 2 /\ env.max_loss = 1
  /\ payoff_at(0, 1, env) = 2 /\ payoff_at(4, 1, env) = -1

\* C23: in Long Call Butterfly, for every strike selection that reaches
\* evaluation (K1 and K2 any two quoted call strikes, K3 = K2 - (K1 - K2)) and
\* all premiums with net debit D, the reported max_profit = K2 - K1 - D is the
\* maximum of the payoff over all S_T >= 0 and the reported max_loss = D the
\* negated minimum.
C23_LongCallButterflyExtremes ==
  (strategy = "Long Call Butterfly" /\ Evaluated) =>
    \A e \in {env} :
    \A values \in {{payoff_at(s, 1, e) : s \in Prices}} :
    /\ e.K_3 = e.K_2 - (e.K_1 - e.K_2)
    /\ e.D = e.D_1 + e.D_2 - e.C_1
    /\ e.max_profit = e.K_2 - e.K_1 - e.D
    /\ e.max_loss = e.D
    /\ e.max_profit = SetMax(values)
    /\ e.max_loss = 0 - SetMin(values)

\* C24: in Long Strangle, Short Strangle, Long Guts and Short Guts, whose call
\* strike K1 and put strike K2 are chosen independently, for every selectable
\* pair and all premiums the long strategy's max_loss is the negated minimum
\* of its payoff over all S_T, the short strategy's max_profit the maximum of
\* its payoff, and for identical strikes and premiums Long Guts' max_loss
\* equals Short Guts' max_profit.
C24_StrangleGutsExtremes ==
  (strategy \in {"Long Strangle", "Short Strangle", "Long Guts", "Short Guts"}
   /\ Evaluated) =>
    \A e \in {env} :
    \A values \in {{payoff_at(s, 1, e) : s \in Prices}} :
    /\ strategy \in {"Long Strangle", "Long Guts"} =>
         e.max_loss = 0 - SetMin(values)
    /\ strategy \in {"Short Strangle", "Short Guts"} =>
         e.max_profit = SetMax(values)
    /\ strategy \in {"Long Guts", "Short Guts"} =>
         Step8("Long Guts", 0, 1, priced("Long Guts")).max_loss
           = Step8("Short Guts", 0, 1, priced("Short Guts")).max_profit

\* C25: in the four seagull spreads, whose strikes K1, K2, K3 are selected
\* from the full chains, for every selectable triple and all premiums each
\* finite reported max_profit is the maximum of the payoff over all S_T >= 0,
\* each finite reported max_loss the negated minimum, and neither is negative.
C25_SeagullExtremes ==
  (strategy \in {"Bullish Short Seagull Spread", "Bullish Long Seagull Spread",
                 "Bearish Long Seagull Spread", "Bearish Short Seagull Spread"}
   /\ Evaluated) =>
    \A e \in {env} :
    \A values \in {{payoff_at(s, 1, e) : s \in Prices}} :
    /\ ns.max_profit # inf =>
         e.max_profit = SetMax(values) /\ e.max_profit >= 0
    /\ ns.max_loss # inf =>
         e.max_loss = 0 - SetMin(values) /\ e.max_loss >= 0

\* C26: the ratio quantities respect the stated inequality: in Call and Put
\* Ratio Backspread every accepted pair has N_L > N_S >= 1, in Ratio Call and
\* Ratio Put Spread 1 <= N_L < N_S, so the divisor N_L - N_S of the breakeven
\* is never zero.
C26_RatioQuantitiesStrict ==
  (strategy \in {"Call Ratio Backspread", "Put Ratio Backspread",
                 "Ratio Call Spread", "Ratio Put Spread"}
   /\ pc # "step5") =>
    \A n_s \in {ns.N_S.val}, n_l \in {ns.N_L.val} :
    /\ IF strategy \in {"Call Ratio Backspread", "Put Ratio Backspread"}
       THEN n_l > n_s /\ n_s >= 1
       ELSE 1 <= n_l /\ n_l < n_s
    /\ n_l - n_s # 0
    /\ Evaluated => ns.S_up.den # 0 /\ ns.S_down.den # 0

\* C27: in each of the four calendar and diagonal strategies the far (long)
\* leg is valued, at every sampled S_T used as spot, with the risk-free rate r
\* and the volatility sigma the user entered; no run values it with a fixed
\* rate or volatility in their place.
C27_FarLegUsesEnteredInputs ==
  (strategy \in calendar_strategies /\ Evaluated) =>
    \A K_far \in {IF Bound("K") THEN ns.K.val ELSE ns.K_1.val} :
    \A K_near \in {IF Bound("K") THEN ns.K.val ELSE ns.K_2.val} :
    \A q \in {ns.S_T.den}, T \in {ns.months_between_short_long.val} :
    \A i \in DOMAIN ns.S_T.val :
    \A S \in {ns.S_T.val[i]} :
    \A far \in {IF strategy \in {"Calendar Call Spread", "Diagonal Call Spread"}
                THEN bs_call(S, q, K_far, T, ns.r.val, ns.sigma.val)
                ELSE bs_put(S, q, K_far, T, ns.r.val, ns.sigma.val)} :
    \A near \in {IF strategy \in {"Calendar Call Spread", "Diagonal Call Spread"}
                 THEN Max(S - q * K_near, 0) ELSE Max(q * K_near - S, 0)} :
      ns.payoff.val[i] =
        IF far.tag = "nan" THEN nan
        ELSE Frac(far.val - FP * FP * near
                  - q * FP * FP * ns.net_premium.val, q * FP * FP)

C29_ProfitPlusLossIsWidth ==
  (strategy \in {"Bull Call Spread", "Bull Put Spread", "Bear Call Spread",
                 "Bear Put Spread", "Long Iron Butterfly",
                 "Short Iron Butterfly", "Long Put Butterfly",
                 "Short Call Butterfly", "Short Put Butterfly"}
                \cup plot_K1_K2_K3_K4
   /\ Evaluated) =>
    \A e \in {env} :
      e.max_profit + e.max_loss
        = (IF e.K_2 >= e.K_1 THEN e.K_2 - e.K_1 ELSE e.K_1 - e.K_2)

\* C30: every strategy name the four sidebar menus can yield has a description
\* in the catalog and a computation branch, and on every run that reaches the
\* plotting step the branch has assigned S_T, payoff, max_profit, max_loss and
\* every strike variable the plot reads for that strategy (K_1 and K_2, plus
\* K_3, plus K_4, or the single K of the fallback case); conversely every
\* catalog entry is reachable from a menu.
C30_MenuCatalogBranchPlot ==
  /\ strategy \in menu_strategies
  /\ menu_strategies \subseteq strategies_informations
  /\ strategies_informations \subseteq menu_strategies
  /\ exception # "KeyError"
  /\ pc \in {"step10", "done"} =>
       /\ \A n \in {"S_T", "payoff", "max_profit", "max_loss"} : Bound(n)
       /\ \A n \in Range(plot_strikes(strategy)) : Bound(n)
       /\ strategy \in plot_K1_K2 => Bound("K_1") /\ Bound("K_2")
       /\ strategy \in plot_K1_K2_K3 =>
            Bound("K_1") /\ Bound("K_2") /\ Bound("K_3")
       /\ strategy \in plot_K1_K2_K3_K4 =>
            Bound("K_1") /\ Bound("K_2") /\ Bound("K_3") /\ Bound("K_4")
       /\ strategy \notin plot_K1_K2 \cup plot_K1_K2_K3 \cup plot_K1_K2_K3_K4
            => Bound("K")

C30_Witness ==
  /\ strategy = "Long Box" /\ pc = "done"
  /\ Bound("K_1") /\ Bound("K_2") /\ ~Bound("K")
  /\ Bound("S_T") /\ Bound("payoff") /\ Bound("max_profit") /\ Bound("max_loss")

====
